---- MODULE Spec2Model ----
(***************************************************************************)
(* Statement ingestion pipeline of finance-assistant: bank detection,      *)
(* per-bank extraction, and the import loop of import_csv / import_pdf     *)
(* against the spreadsheet-backed record store.                            *)
(*                                                                         *)
(* Text is modelled character by character on TLA+ strings (TLC evaluates  *)
(* Len, Head, Tail, SubSeq and \o on strings).  Python floats are          *)
(* modelled as thousandths of a currency unit, plus the not-a-number       *)
(* value, whose every ordered comparison is false.                         *)
(***************************************************************************)
EXTENDS Integers, Sequences, FiniteSets, TLC

(***************************************************************************)
(* Python str methods                                                      *)
(***************************************************************************)
Char(s, i) == SubSeq(s, i, i)

UpperChars == "ABCDEFGHIJKLMNOPQRSTUVWXYZ"

LowerChars == "abcdefghijklmnopqrstuvwxyz"

DigitChars == "0123456789"

Whitespace == {" ", "\t", "\n", "\r"}

UpperSet == {Char(UpperChars, k) : k \in 1..Len(UpperChars)}

DigitSet == {Char(DigitChars, k) : k \in 1..Len(DigitChars)}

ToLower ==
    [c \in UpperSet |->
        Char(LowerChars, CHOOSE k \in 1..Len(UpperChars) : Char(UpperChars, k) = c)]

ToDigit == [c \in DigitSet |-> (CHOOSE k \in 1..Len(DigitChars) : Char(DigitChars, k) = c) - 1]

IsUpper(c) == c \in UpperSet

IsDigit(c) == c \in DigitSet

DigitVal(c) == ToDigit[c]

LowerChar(c) == IF IsUpper(c) THEN ToLower[c] ELSE c

\* str.lower()
RECURSIVE Lower(_)
Lower(s) == IF s = "" THEN "" ELSE LowerChar(Head(s)) \o Lower(Tail(s))

RECURSIVE LStrip(_)
LStrip(s) == IF s # "" /\ Head(s) \in Whitespace THEN LStrip(Tail(s)) ELSE s

RECURSIVE RStrip(_)
RStrip(s) ==
    IF s # "" /\ Char(s, Len(s)) \in Whitespace
    THEN RStrip(SubSeq(s, 1, Len(s) - 1))
    ELSE s

\* str.strip()
Strip(s) == RStrip(LStrip(s))

\* sub in s
Contains(s, sub) ==
    \E k \in 1..(Len(s) - Len(sub) + 1) : SubSeq(s, k, k + Len(sub) - 1) = sub

\* s.replace(c, "") for a one-character c
RECURSIVE RemoveChar(_, _)
RemoveChar(s, c) ==
    IF s = "" THEN ""
    ELSE IF Head(s) = c THEN RemoveChar(Tail(s), c)
    ELSE Head(s) \o RemoveChar(Tail(s), c)

AllDigits(s) == \A k \in 1..Len(s) : IsDigit(Char(s, k))

\* int(s) of a digit string
RECURSIVE DigitsVal(_)
DigitsVal(s) ==
    IF s = "" THEN 0
    ELSE DigitsVal(SubSeq(s, 1, Len(s) - 1)) * 10 + DigitVal(Char(s, Len(s)))

(***************************************************************************)
(* Python float                                                            *)
(***************************************************************************)
Num(v) == [nan |-> FALSE, v |-> v]

NaN == [nan |-> TRUE, v |-> 0]

FNeg(x) == IF x.nan THEN NaN ELSE Num(0 - x.v)

\* x <= 0
FLeZero(x) == ~x.nan /\ x.v <= 0

\* x > 0
FGtZero(x) == ~x.nan /\ x.v > 0

\* bool(x)
FTruthy(x) == x.nan \/ x.v # 0

FAbs(v) == IF v < 0 THEN 0 - v ELSE v

\* the fraction digits of a decimal literal, in thousandths
FracVal(s) ==
    IF Len(s) = 0 THEN 0
    ELSE IF Len(s) = 1 THEN DigitsVal(s) * 100
    ELSE IF Len(s) = 2 THEN DigitsVal(s) * 10
    ELSE DigitsVal(SubSeq(s, 1, 3))

\* an unsigned decimal literal: digits, optionally a point and digits
IsDecimal(s) ==
    \/ s # "" /\ AllDigits(s)
    \/ \E p \in 1..Len(s) :
          /\ Char(s, p) = "."
          /\ AllDigits(SubSeq(s, 1, p - 1))
          /\ AllDigits(SubSeq(s, p + 1, Len(s)))
          /\ Len(s) > 1

DecimalVal(s) ==
    IF AllDigits(s) THEN DigitsVal(s) * 1000
    ELSE LET p == CHOOSE q \in 1..Len(s) : Char(s, q) = "."
         IN  DigitsVal(SubSeq(s, 1, p - 1)) * 1000 + FracVal(SubSeq(s, p + 1, Len(s)))

Failed == [ok |-> FALSE, val |-> NaN]

Parsed(x) == [ok |-> TRUE, val |-> x]

\* float(s) of a str: [ok |-> FALSE] stands for ValueError
PyFloatStr(s) ==
    LET t == Strip(s)
        neg == t # "" /\ Head(t) = "-"
        u == IF t # "" /\ Head(t) \in {"-", "+"} THEN Tail(t) ELSE t
    IN  IF Lower(u) = "nan" THEN Parsed(NaN)
        ELSE IF IsDecimal(u)
        THEN Parsed(Num(IF neg THEN 0 - DecimalVal(u) ELSE DecimalVal(u)))
        ELSE Failed

(***************************************************************************)
(* Dates                                                                   *)
(***************************************************************************)
MkDate(y, m, d) == [y |-> y, m |-> m, d |-> d]

\* pandas NaT: what pd.to_datetime gives for a missing cell; NaT.date() is NaT
NaT == [y |-> 0, m |-> 0, d |-> 0]

IsLeap(y) == (y % 4 = 0 /\ y % 100 # 0) \/ y % 400 = 0

DaysInMonth(y, m) ==
    IF m = 2 THEN (IF IsLeap(y) THEN 29 ELSE 28)
    ELSE IF m \in {4, 6, 9, 11} THEN 30 ELSE 31

\* datetime.date(y, m, d) accepts these, and raises ValueError otherwise
ValidDate(y, m, d) == y \in 1..9999 /\ m \in 1..12 /\ d \in 1..DaysInMonth(y, m)

\* str(n).zfill(w)
RECURSIVE IntStr(_)
IntStr(n) == IF n < 10 THEN Char(DigitChars, n + 1)
             ELSE IntStr(n \div 10) \o Char(DigitChars, (n % 10) + 1)

RECURSIVE ZFill(_, _)
ZFill(s, w) == IF Len(s) >= w THEN s ELSE ZFill("0" \o s, w)

\* date.isoformat()
IsoFormat(dt) ==
    IF dt = NaT THEN "NaT"
    ELSE ZFill(IntStr(dt.y), 4) \o "-" \o ZFill(IntStr(dt.m), 2) \o "-" \o ZFill(IntStr(dt.d), 2)

NoDate == [ok |-> FALSE, val |-> NaT]

\* the fields of s split at the character c
RECURSIVE Split(_, _)
Split(s, c) ==
    IF \E k \in 1..Len(s) : Char(s, k) = c
    THEN LET p == CHOOSE k \in 1..Len(s) :
                     Char(s, k) = c /\ \A j \in 1..(k - 1) : Char(s, j) # c
         IN  <<SubSeq(s, 1, p - 1)>> \o Split(SubSeq(s, p + 1, Len(s)), c)
    ELSE <<s>>

IsNumField(s, lo, hi) == Len(s) \in lo..hi /\ AllDigits(s)

(***************************************************************************)
(* pandas DataFrame as read by pd.read_csv: column names and rows of       *)
(* cells; a cell is a float (a blank cell is NaN) or a str                 *)
(***************************************************************************)
NumCell(v) == [k |-> "num", f |-> Num(v), s |-> ""]

NaNCell == [k |-> "num", f |-> NaN, s |-> ""]

StrCell(s) == [k |-> "str", f |-> NaN, s |-> s]

\* pd.isna(cell)
IsNa(cell) == cell.k = "num" /\ cell.f.nan

\* row[name] without the column raises KeyError (row.get(name) is None);
\* with several columns of the name it is a Series of their cells
MissingCell == [k |-> "missing", f |-> NaN, s |-> ""]

SeriesCell == [k |-> "series", f |-> NaN, s |-> ""]

\* float(cell) of a float or a str
PyFloat(cell) == IF cell.k = "num" THEN Parsed(cell.f) ELSE PyFloatStr(cell.s)

\* str(float): repr of a float held in thousandths
FloatRepr(f) ==
    IF f.nan THEN "nan"
    ELSE LET a == FAbs(f.v)
             frac == ZFill(IntStr(a % 1000), 3)
             cut == IF SubSeq(frac, 2, 3) = "00" THEN SubSeq(frac, 1, 1)
                    ELSE IF Char(frac, 3) = "0" THEN SubSeq(frac, 1, 2) ELSE frac
         IN  (IF f.v < 0 THEN "-" ELSE "") \o IntStr(a \div 1000) \o "." \o cut

\* str(cell); the text of a Series ends with its dtype line
PyStr(cell) ==
    IF cell.k = "str" THEN cell.s
    ELSE IF cell.k = "series" THEN "dtype: object"
    ELSE FloatRepr(cell.f)

\* the date of the "/" fields or the "-" fields of a text
DateOfFields(us, iso) ==
    IF /\ Len(us) = 3
       /\ IsNumField(us[1], 1, 2) /\ IsNumField(us[2], 1, 2) /\ IsNumField(us[3], 4, 4)
       /\ ValidDate(DigitsVal(us[3]), DigitsVal(us[1]), DigitsVal(us[2]))
    THEN [ok |-> TRUE, val |-> MkDate(DigitsVal(us[3]), DigitsVal(us[1]), DigitsVal(us[2]))]
    ELSE IF /\ Len(iso) = 3
            /\ IsNumField(iso[1], 4, 4) /\ IsNumField(iso[2], 2, 2)
            /\ IsNumField(iso[3], 2, 2)
            /\ ValidDate(DigitsVal(iso[1]), DigitsVal(iso[2]), DigitsVal(iso[3]))
    THEN [ok |-> TRUE, val |-> MkDate(DigitsVal(iso[1]), DigitsVal(iso[2]), DigitsVal(iso[3]))]
    ELSE NoDate

\* pd.to_datetime(cell).date(): month/day/year and ISO year-month-day texts
\* parse, a missing cell gives NaT, a number counts nanoseconds from the
\* epoch, any other text raises ValueError ([ok |-> FALSE])
ToDatetimeDate(cell) ==
    IF cell.k = "num"
    THEN (IF cell.f.nan THEN [ok |-> TRUE, val |-> NaT]
          ELSE [ok |-> TRUE, val |-> MkDate(1970, 1, 1)])
    ELSE DateOfFields(Split(Strip(cell.s), "/"), Split(Strip(cell.s), "-"))

\* {c.lower().strip() for c in df.columns}
ColSet(columns) == {Strip(Lower(columns[k])) : k \in 1..Len(columns)}

\* df.columns = [c.strip() for c in df.columns]
StripColumns(columns) == [k \in 1..Len(columns) |-> Strip(columns[k])]

\* how many columns carry the name once the names are stripped
ColCount(columns, name) == Cardinality({k \in 1..Len(columns) : columns[k] = name})

\* row[name]
Cell(columns, row, name) ==
    IF ColCount(columns, name) = 0 THEN MissingCell
    ELSE IF ColCount(columns, name) > 1 THEN SeriesCell
    ELSE row[CHOOSE k \in 1..Len(columns) : columns[k] = name]

Txn(dt, amount, description) == [date |-> dt, amount |-> amount, description |-> description]

(***************************************************************************)
(* csv_parser.py: the four bank parsers                                    *)
(***************************************************************************)
ChaseCanParse(columns) ==
    LET cols == ColSet(columns)
    IN  /\ "transaction date" \in cols
        /\ "description" \in cols
        /\ "amount" \in cols
        /\ "post date" \in cols

AmexCanParse(columns) ==
    LET cols == ColSet(columns)
    IN  /\ "date" \in cols
        /\ "description" \in cols
        /\ "amount" \in cols
        /\ "transaction date" \notin cols
        /\ "trans. date" \notin cols

DiscoverCanParse(columns) ==
    LET cols == ColSet(columns)
    IN  "trans. date" \in cols /\ "description" \in cols /\ "amount" \in cols

CapitalOneCanParse(columns) ==
    LET cols == ColSet(columns)
    IN  /\ "transaction date" \in cols
        /\ "description" \in cols
        /\ "debit" \in cols
        /\ "credit" \in cols

Skip == [raised |-> "", txns |-> <<>>]

Keep(txn) == [raised |-> "", txns |-> <<txn>>]

Escapes(exc) == [raised |-> exc, txns |-> <<>>]

\* the end of the try block of a parse loop: the description, and the append.
\* ValueError and KeyError are skipped by the except clause.
DatedTxn(txn_date, amount, description) ==
    IF ~txn_date.ok THEN Skip
    ELSE IF description.k = "missing" THEN Skip
    ELSE Keep(Txn(txn_date.val, amount, Strip(PyStr(description))))

\* the try block from the sign check on; a Series has no date(), and the
\* AttributeError is not one the except clause names
AmountTxn(amount, txn_date, description) ==
    IF FLeZero(amount) THEN Skip
    ELSE IF txn_date.k = "missing" THEN Skip
    ELSE IF txn_date.k = "series" THEN Escapes("AttributeError")
    ELSE DatedTxn(ToDatetimeDate(txn_date), amount, description)

\* sign * float(...), when float() did not raise ValueError
SignedTxn(raw_amount, sign, txn_date, description) ==
    IF ~raw_amount.ok THEN Skip
    ELSE AmountTxn(IF sign < 0 THEN FNeg(raw_amount.val) ELSE raw_amount.val,
                   txn_date, description)

\* the try block of the Chase, Amex and Discover loops on the three cells it
\* reads; float(Series) raises TypeError, which the except clause does not name
SignedCells(raw_amount, sign, txn_date, description) ==
    IF raw_amount.k = "missing" THEN Skip
    ELSE IF raw_amount.k = "series" THEN Escapes("TypeError")
    ELSE SignedTxn(PyFloat(raw_amount), sign, txn_date, description)

\* One pass of the loop body of a parse method whose purchase amount is
\* sign * float(row[amountCol])
SignedRow(cols, row, amountCol, dateCol, sign) ==
    SignedCells(Cell(cols, row, amountCol), sign, Cell(cols, row, dateCol),
                Cell(cols, row, "Description"))

\* a faulty Chase loop: the raw amount is not negated
ChaseRowNotNegated(cols, row) == SignedRow(cols, row, "Amount", "Transaction Date", 1)

ChaseRow(cols, row) == SignedRow(cols, row, "Amount", "Transaction Date", -1)

AmexRow(cols, row) == SignedRow(cols, row, "Amount", "Date", 1)

DiscoverRow(cols, row) == SignedRow(cols, row, "Amount", "Trans. Date", 1)

\* the try block of the Capital One loop: row.get("Debit") is None without
\* the column, and the truth value of pd.isna(Series) raises ValueError
DebitCells(debit, txn_date, description) ==
    IF debit.k \in {"missing", "series"} THEN Skip
    ELSE IF IsNa(debit) \/ debit = StrCell("") THEN Skip
    ELSE SignedTxn(PyFloat(debit), 1, txn_date, description)

CapitalOneRow(cols, row) ==
    DebitCells(Cell(cols, row, "Debit"), Cell(cols, row, "Transaction Date"),
               Cell(cols, row, "Description"))

CsvRow(bank, cols, row) ==
    CASE bank = "Chase" -> ChaseRow(cols, row)
      [] bank = "Amex" -> AmexRow(cols, row)
      [] bank = "Discover" -> DiscoverRow(cols, row)
      [] bank = "Capital One" -> CapitalOneRow(cols, row)

\* the transactions of a row and then of the rows after it, unless the row
\* raised
RowThen(first, rest) ==
    IF first.raised # "" THEN first
    ELSE [raised |-> rest.raised, txns |-> first.txns \o rest.txns]

\* parser.parse(df): the rows in order, each through the bank's loop body,
\* until an exception escapes
RECURSIVE CsvParseRows(_, _, _)
CsvParseRows(bank, cols, rows) ==
    IF rows = <<>> THEN Skip
    ELSE RowThen(CsvRow(bank, cols, Head(rows)), CsvParseRows(bank, cols, Tail(rows)))

CsvParse(bank, df) == CsvParseRows(bank, StripColumns(df.columns), df.rows)

CsvCanParse(bank, columns) ==
    CASE bank = "Chase" -> ChaseCanParse(columns)
      [] bank = "Amex" -> AmexCanParse(columns)
      [] bank = "Discover" -> DiscoverCanParse(columns)
      [] bank = "Capital One" -> CapitalOneCanParse(columns)

\* a faulty order of the parsers: Chase tried before Capital One
ChaseFirstParsers == <<"Chase", "Capital One", "Discover", "Amex">>

ALL_PARSERS == <<"Capital One", "Chase", "Discover", "Amex">>

NoParser == "None"

\* for parser in parsers: if parser.can_parse(df): return parser
RECURSIVE FirstCsvMatch(_, _)
FirstCsvMatch(parsers, columns) ==
    IF parsers = <<>> THEN NoParser
    ELSE IF CsvCanParse(Head(parsers), columns) THEN Head(parsers)
    ELSE FirstCsvMatch(Tail(parsers), columns)

detect_bank(columns) == FirstCsvMatch(ALL_PARSERS, columns)

(***************************************************************************)
(* pdf_parser.py: helpers                                                  *)
(***************************************************************************)
\* a faulty list: "reversal" in the place of "late fee reversal"
PaymentKeywordsAnyReversal ==
    <<"payment", "thank you", "credit", "autopay", "refund", "adjustment", "reversal",
      "returned">>

PAYMENT_KEYWORDS ==
    <<"payment", "thank you", "credit", "autopay", "refund", "adjustment",
      "late fee reversal", "returned">>

\* date.today().year
CurrentYear == 2026

\* statement_year is None: no year was found
NoYear == 0

\* the %d directive: one or two digits, or a blank and a digit
DayField(s) ==
    \/ IsNumField(s, 1, 2)
    \/ Len(s) = 2 /\ Char(s, 1) = " " /\ IsDigit(Char(s, 2))

\* the date of the fields of a month/day/year text, whose year field has
\* exactly yearLen digits; a two-digit year below 69 is in 2000-2068, else in
\* 1969-1999
StrptimeFields(parts, yearLen) ==
    IF /\ Len(parts) = 3
       /\ IsNumField(parts[1], 1, 2) /\ DayField(parts[2])
       /\ IsNumField(parts[3], yearLen, yearLen)
    THEN LET yy == DigitsVal(parts[3])
             y == IF yearLen = 4 THEN yy
                  ELSE IF yy < 69 THEN 2000 + yy ELSE 1900 + yy
             m == DigitsVal(parts[1])
             d == DigitsVal(LStrip(parts[2]))
         IN  IF ValidDate(y, m, d) THEN [ok |-> TRUE, val |-> MkDate(y, m, d)]
             ELSE NoDate
    ELSE NoDate

\* datetime.strptime(s, "%m/%d/%Y") and "%m/%d/%y"; [ok |-> FALSE] stands for
\* ValueError
Strptime(s, yearLen) == StrptimeFields(Split(s, "/"), yearLen)

\* the digits of the literal int() reads in t, its sign and the single
\* underscores between its digits taken out; "" when t is no such literal
IntDigits(u) ==
    IF /\ u # "" /\ AllDigits(RemoveChar(u, "_")) /\ RemoveChar(u, "_") # ""
       /\ Head(u) # "_" /\ Char(u, Len(u)) # "_" /\ ~Contains(u, "__")
    THEN RemoveChar(u, "_")
    ELSE ""

RECURSIVE ZeroStripped(_)
ZeroStripped(digits) ==
    IF Len(digits) > 1 /\ Head(digits) = "0" THEN ZeroStripped(Tail(digits)) ELSE digits

\* whether the number of the digit string a exceeds that of b, neither with
\* leading zeros
RECURSIVE DigitsGreater(_, _)
DigitsGreater(a, b) ==
    IF Len(a) # Len(b) THEN Len(a) > Len(b)
    ELSE IF a = "" THEN FALSE
    ELSE IF Head(a) # Head(b) THEN DigitVal(Head(a)) > DigitVal(Head(b))
    ELSE DigitsGreater(Tail(a), Tail(b))

\* the int of a sign and its digits; wide is whether it lies outside the C int
\* that date() converts its arguments to
SignedInt(negative, digits) ==
    IF digits = "" THEN [ok |-> FALSE, val |-> 0, wide |-> FALSE]
    ELSE IF DigitsGreater(digits, IF negative THEN "2147483648" ELSE "2147483647")
    THEN [ok |-> TRUE, val |-> 0, wide |-> TRUE]
    ELSE IF digits = "2147483648"
    THEN [ok |-> TRUE, val |-> (0 - 2147483647) - 1, wide |-> FALSE]
    ELSE [ok |-> TRUE, val |-> IF negative THEN 0 - DigitsVal(digits) ELSE DigitsVal(digits),
          wide |-> FALSE]

SignedLiteral(t) ==
    IF t # "" /\ Head(t) \in {"-", "+"}
    THEN SignedInt(Head(t) = "-", ZeroStripped(IntDigits(Tail(t))))
    ELSE SignedInt(FALSE, ZeroStripped(IntDigits(t)))

\* int(s) of a str: [ok |-> FALSE] stands for ValueError
PyInt(s) == SignedLiteral(Strip(s))

\* the OverflowError of date() for an argument that does not fit a C int; no
\* except clause of _parse_date names it
Overflowed == [ok |-> FALSE, val |-> NaT, raised |-> "OverflowError"]

\* date(year, month, day) of two int() results
MonthDayDate(month, day, year) ==
    IF month.ok /\ day.ok /\ (month.wide \/ day.wide) THEN Overflowed
    ELSE IF month.ok /\ day.ok /\ ValidDate(year, month.val, day.val)
    THEN [ok |-> TRUE, val |-> MkDate(year, month.val, day.val)]
    ELSE NoDate

\* the MM/DD branch of _parse_date
MonthDay(parts, statement_year) ==
    IF Len(parts) = 2
    THEN MonthDayDate(PyInt(parts[1]), PyInt(parts[2]),
                      IF statement_year # NoYear THEN statement_year ELSE CurrentYear)
    ELSE NoDate

\* the formats of _parse_date in the order it tries them
FirstDate(full, short, monthDay) ==
    IF full.ok THEN full ELSE IF short.ok THEN short ELSE monthDay

_parse_date(date_str, statement_year) ==
    FirstDate(Strptime(Strip(date_str), 4), Strptime(Strip(date_str), 2),
              MonthDay(Split(Strip(date_str), "/"), statement_year))

\* [ok |-> FALSE] stands for the None returned on ValueError
_parse_amount(amount_str) ==
    PyFloatStr(Strip(RemoveChar(RemoveChar(amount_str, ","), "$")))

_is_payment(description) ==
    LET desc_lower == Lower(description)
    IN  \E k \in 1..Len(PAYMENT_KEYWORDS) : Contains(desc_lower, PAYMENT_KEYWORDS[k])

\* `amount and amount > 0` for the float or None that _parse_amount returned
PositiveAmount(a) == a.ok /\ FTruthy(a.val) /\ FGtZero(a.val)

\* \d{1,2}/\d{1,2}(?:/\d{2,4})? over a whole token
DateShape(tok) ==
    LET parts == Split(tok, "/")
    IN  /\ Len(parts) \in {2, 3}
        /\ IsNumField(parts[1], 1, 2)
        /\ IsNumField(parts[2], 1, 2)
        /\ Len(parts) = 3 => IsNumField(parts[3], 2, 4)

\* [\d,]+\.\d{2} over a whole token
AmountShape(tok) ==
    /\ Len(tok) >= 4
    /\ Char(tok, Len(tok) - 2) = "."
    /\ AllDigits(SubSeq(tok, Len(tok) - 1, Len(tok)))
    /\ \A k \in 1..(Len(tok) - 3) : IsDigit(Char(tok, k)) \/ Char(tok, k) = ","

NoMatch == [ok |-> FALSE, g1 |-> "", g2 |-> "", g3 |-> ""]

\* TRANSACTION_LINE.match(line) for a stripped line.  The date group is the
\* first blank-separated token and the amount group the last one (after an
\* optional "$"); the lazy description group is everything between the two
\* surrounding runs of blanks, or, when nothing lies between the date and the
\* amount, one blank taken out of a run of at least three.
TransactionLineMatch(line) ==
    LET n == Len(line)
        blanks == {k \in 1..n : Char(line, k) \in Whitespace}
    IN  IF blanks = {} THEN NoMatch
        ELSE LET e == (CHOOSE k \in blanks : \A j \in blanks : k <= j) - 1
                 a == (CHOOSE k \in blanks : \A j \in blanks : k >= j) + 1
                 p == CHOOSE k \in (e + 1)..n :
                         /\ Char(line, k) \notin Whitespace
                         /\ \A j \in (e + 1)..(k - 1) : Char(line, j) \in Whitespace
                 last == SubSeq(line, a, n)
                 g3 == IF last # "" /\ Head(last) = "$" THEN Tail(last) ELSE last
                 w2 == CHOOSE k \in 1..a :
                         /\ \A j \in k..(a - 1) : Char(line, j) \in Whitespace
                         /\ k > 1 => Char(line, k - 1) \notin Whitespace
             IN  IF ~DateShape(SubSeq(line, 1, e)) \/ ~AmountShape(g3) THEN NoMatch
                 ELSE IF a > p
                 THEN [ok |-> TRUE, g1 |-> SubSeq(line, 1, e),
                       g2 |-> SubSeq(line, p, w2 - 1), g3 |-> g3]
                 ELSE IF p - e - 1 >= 3
                 THEN [ok |-> TRUE, g1 |-> SubSeq(line, 1, e), g2 |-> " ", g3 |-> g3]
                 ELSE NoMatch

\* s[i : i + n], shorter at the end of s
Slice(s, i, n) == SubSeq(s, i, IF i + n - 1 > Len(s) THEN Len(s) ELSE i + n - 1)

\* \d{1,2}/\d{1,2}/(\d{4}) matched at position i: <<year>> or <<>>
SlashYearAt(t, i) ==
    LET hits == {ab \in {1, 2} \X {1, 2} :
                    /\ IsNumField(Slice(t, i, ab[1]), ab[1], ab[1])
                    /\ Slice(t, i + ab[1], 1) = "/"
                    /\ IsNumField(Slice(t, i + ab[1] + 1, ab[2]), ab[2], ab[2])
                    /\ Slice(t, i + ab[1] + ab[2] + 1, 1) = "/"
                    /\ IsNumField(Slice(t, i + ab[1] + ab[2] + 2, 4), 4, 4)}
    IN  IF hits = {} THEN <<>>
        ELSE LET ab == CHOOSE h \in hits : TRUE
             IN  <<DigitsVal(Slice(t, i + ab[1] + ab[2] + 2, 4))>>

MonthNames ==
    <<"January", "February", "March", "April", "May", "June", "July", "August",
      "September", "October", "November", "December">>

\* (January|...|December)\s+(\d{4}) matched at position i: <<year>> or <<>>
MonthYearAt(t, i) ==
    LET named == {k \in 1..Len(MonthNames) :
                     Slice(t, i, Len(MonthNames[k])) = MonthNames[k]}
    IN  IF named = {} THEN <<>>
        ELSE LET k == CHOOSE j \in named : TRUE
                 b == i + Len(MonthNames[k])
                 y == CHOOSE q \in b..(Len(t) + 1) :
                         /\ \A j \in b..(q - 1) : Char(t, j) \in Whitespace
                         /\ q > Len(t) \/ Char(t, q) \notin Whitespace
             IN  IF y > b /\ IsNumField(Slice(t, y, 4), 4, 4)
                 THEN <<DigitsVal(Slice(t, y, 4))>>
                 ELSE <<>>

\* the leftmost of two sets of positions, 0 when both are empty
Leftmost(slash, month) ==
    IF slash \cup month = {} THEN 0
    ELSE CHOOSE i \in slash \cup month : \A j \in slash \cup month : i <= j

\* a faulty search: the leftmost match of either pattern gives the year
YearOfLeftmostPattern(full_text) ==
    LET slash == {i \in 1..Len(full_text) : SlashYearAt(full_text, i) # <<>>}
        month == {i \in 1..Len(full_text) : MonthYearAt(full_text, i) # <<>>}
    IN  IF slash \cup month = {} THEN NoYear
        ELSE IF Leftmost(slash, month) \in slash
        THEN SlashYearAt(full_text, Leftmost(slash, month))[1]
        ELSE MonthYearAt(full_text, Leftmost(slash, month))[1]

\* re.search: the match at the leftmost position that has one
_extract_year_from_text(full_text) ==
    LET slash == {i \in 1..Len(full_text) : SlashYearAt(full_text, i) # <<>>}
        month == {i \in 1..Len(full_text) : MonthYearAt(full_text, i) # <<>>}
    IN  IF slash # {}
        THEN SlashYearAt(full_text, CHOOSE i \in slash : \A j \in slash : i <= j)[1]
        ELSE IF month # {}
        THEN MonthYearAt(full_text, CHOOSE i \in month : \A j \in month : i <= j)[1]
        ELSE NoYear

(***************************************************************************)
(* pdf_parser.py: the four bank parsers.  A PDF is its pages; a page is    *)
(* what extract_tables() and extract_text() give for it (no text is "",    *)
(* a missing cell is "")                                                   *)
(***************************************************************************)
ChasePdfCanParse(text) ==
    LET text_lower == Lower(text)
    IN  Contains(text_lower, "jpmorgan chase") \/ Contains(text_lower, "chase.com")

AmexPdfCanParse(text) ==
    LET text_lower == Lower(text)
    IN  Contains(text_lower, "american express") \/ Contains(text_lower, "amex")

DiscoverPdfCanParse(text) ==
    LET text_lower == Lower(text)
    IN  /\ Contains(text_lower, "discover")
        /\ \/ Contains(text_lower, "discover.com")
           \/ Contains(text_lower, "discover bank")
           \/ Contains(text_lower, "discover financial")
           \/ Contains(text_lower, "cashback")

CapitalOnePdfCanParse(text) == Contains(Lower(text), "capital one")

\* a faulty text-line loop: the description is not looked at
LineTxnAnyDescription(txn_date, description, amount) ==
    IF txn_date.ok /\ PositiveAmount(amount)
    THEN <<Txn(txn_date.val, amount.val, description)>>
    ELSE <<>>

\* the checks of the text-line loop on the three groups of a match
LineTxn(txn_date, description, amount) ==
    IF txn_date.ok /\ PositiveAmount(amount) /\ ~_is_payment(description)
    THEN <<Txn(txn_date.val, amount.val, description)>>
    ELSE <<>>

MatchedLine(match, statement_year) ==
    IF ~match.ok THEN <<>>
    ELSE LineTxn(_parse_date(match.g1, statement_year), Strip(match.g2),
                 _parse_amount(match.g3))

\* the body of the text-line loop shared by the four parsers
TextLine(line, statement_year) ==
    MatchedLine(TransactionLineMatch(Strip(line)), statement_year)

RECURSIVE TextLines(_, _)
TextLines(lines, statement_year) ==
    IF lines = <<>> THEN <<>>
    ELSE TextLine(Head(lines), statement_year) \o TextLines(Tail(lines), statement_year)

_parse_text_lines(text, statement_year) == TextLines(Split(text, "\n"), statement_year)

\* " ".join(parts)
RECURSIVE Join(_)
Join(parts) ==
    IF parts = <<>> THEN ""
    ELSE IF Len(parts) = 1 THEN parts[1]
    ELSE parts[1] \o " " \o Join(Tail(parts))

\* one cell of the loop of _try_parse_row: acc holds date_val, amount_val and
\* desc_parts, d and a are _parse_date and _parse_amount of the cell
CellStep(acc, cell, d, a) ==
    IF cell = "" THEN acc
    ELSE IF ~acc.date.ok /\ d.ok THEN [acc EXCEPT !.date = d]
    ELSE IF a.ok THEN [acc EXCEPT !.amount = a]
    ELSE [acc EXCEPT !.desc = Append(acc.desc, cell)]

RECURSIVE RowCells(_, _, _)
RowCells(cells, statement_year, acc) ==
    IF cells = <<>> THEN acc
    ELSE RowCells(Tail(cells), statement_year,
                  CellStep(acc, Head(cells), _parse_date(Head(cells), statement_year),
                           _parse_amount(Head(cells))))

\* the checks of _try_parse_row after its loop
RowTxn(date_val, amount_val, description) ==
    IF /\ date_val.ok /\ PositiveAmount(amount_val)
       /\ description # "" /\ ~_is_payment(description)
    THEN <<Txn(date_val.val, amount_val.val, description)>>
    ELSE <<>>

RowFields(acc) == RowTxn(acc.date, acc.amount, Strip(Join(acc.desc)))

_try_parse_row(cells, statement_year) ==
    RowFields(RowCells(cells, statement_year,
                       [date |-> NoDate, amount |-> Failed, desc |-> <<>>]))

\* whether _try_parse_row raises: _parse_date is tried on the non-empty cells
\* up to the first that parses as a date
RECURSIVE RowOverflows(_, _)
RowOverflows(cells, statement_year) ==
    IF cells = <<>> THEN FALSE
    ELSE IF Head(cells) = "" THEN RowOverflows(Tail(cells), statement_year)
    ELSE IF _parse_date(Head(cells), statement_year) = Overflowed THEN TRUE
    ELSE IF _parse_date(Head(cells), statement_year).ok THEN FALSE
    ELSE RowOverflows(Tail(cells), statement_year)

\* [str(cell).strip() if cell else "" for cell in row]
RowText(row) == [k \in 1..Len(row) |-> Strip(row[k])]

\* the rows of one table, skipping rows of fewer than minCells cells
RECURSIVE TableRows(_, _, _)
TableRows(table, statement_year, minCells) ==
    IF table = <<>> THEN <<>>
    ELSE (IF Len(Head(table)) < minCells THEN <<>>
          ELSE _try_parse_row(RowText(Head(table)), statement_year))
         \o TableRows(Tail(table), statement_year, minCells)

RECURSIVE Tables(_, _, _)
Tables(tables, statement_year, minCells) ==
    IF tables = <<>> THEN <<>>
    ELSE TableRows(Head(tables), statement_year, minCells)
         \o Tables(Tail(tables), statement_year, minCells)

\* the parsers that read tables, and the cells a row of theirs must have
TableParsers == {"Chase", "Discover"}

MinCells(bank) == IF bank = "Discover" THEN 3 ELSE 2

\* a faulty page loop: every parser reads a page with tables from its tables
PdfPageTablesForAll(bank, page, statement_year) ==
    IF page.tables # <<>>
    THEN Tables(page.tables, statement_year, MinCells(bank))
    ELSE _parse_text_lines(page.text, statement_year)

\* a faulty page loop: the text is read when the tables gave no transaction
PdfPageTextWhenNothing(bank, page, statement_year) ==
    IF bank \in TableParsers /\ Tables(page.tables, statement_year, MinCells(bank)) # <<>>
    THEN Tables(page.tables, statement_year, MinCells(bank))
    ELSE _parse_text_lines(page.text, statement_year)

\* one page: ChasePdfParser and DiscoverPdfParser read a page with tables from
\* its tables and any other page from its text; AmexPdfParser and
\* CapitalOnePdfParser read the text of every page
PdfPage(bank, page, statement_year) ==
    IF bank \in TableParsers /\ page.tables # <<>>
    THEN Tables(page.tables, statement_year, MinCells(bank))
    ELSE _parse_text_lines(page.text, statement_year)

\* whether parse_transactions raises: some row a table parser reads does
ParseOverflows(bank, pages, statement_year) ==
    /\ bank \in TableParsers
    /\ \E p \in 1..Len(pages) : \E t \in 1..Len(pages[p].tables) :
          \E r \in 1..Len(pages[p].tables[t]) :
              /\ Len(pages[p].tables[t][r]) >= MinCells(bank)
              /\ RowOverflows(RowText(pages[p].tables[t][r]), statement_year)

RECURSIVE parse_transactions(_, _, _)
parse_transactions(bank, pages, statement_year) ==
    IF pages = <<>> THEN <<>>
    ELSE PdfPage(bank, Head(pages), statement_year)
         \o parse_transactions(bank, Tail(pages), statement_year)

PdfCanParse(bank, text) ==
    CASE bank = "Chase" -> ChasePdfCanParse(text)
      [] bank = "Amex" -> AmexPdfCanParse(text)
      [] bank = "Discover" -> DiscoverPdfCanParse(text)
      [] bank = "Capital One" -> CapitalOnePdfCanParse(text)

\* a faulty order of the parsers: Amex tried before Chase
AmexFirstPdfParsers == <<"Amex", "Chase", "Discover", "Capital One">>

ALL_PDF_PARSERS == <<"Chase", "Amex", "Discover", "Capital One">>

RECURSIVE FirstPdfMatch(_, _)
FirstPdfMatch(parsers, text) ==
    IF parsers = <<>> THEN NoParser
    ELSE IF PdfCanParse(Head(parsers), text) THEN Head(parsers)
    ELSE FirstPdfMatch(Tail(parsers), text)

detect_pdf_bank(text) == FirstPdfMatch(ALL_PDF_PARSERS, text)

\* "\n".join(page.extract_text() or "" for page in pdf.pages)
RECURSIVE FullText(_)
FullText(pages) ==
    IF pages = <<>> THEN ""
    ELSE IF Len(pages) = 1 THEN pages[1].text
    ELSE pages[1].text \o "\n" \o FullText(Tail(pages))

(***************************************************************************)
(* services/categorizer.py and services/sheets.py                          *)
(***************************************************************************)
\* rows of the Categories sheet (two of DEFAULT_CATEGORIES), keywords split
Categories ==
    <<[name |-> "Groceries",
       keywords |-> <<"supermarket", "grocery", "whole foods", "trader joe">>],
      [name |-> "Shopping",
       keywords |-> <<"amazon", "target", "walmart", "costco">>]>>

\* Categorizer.categorize: the first category one of whose keywords the
\* lower-cased description contains, else "Other"
RECURSIVE FirstCategory(_, _)
FirstCategory(cats, description_lower) ==
    IF cats = <<>> THEN "Other"
    ELSE IF \E k \in 1..Len(Head(cats).keywords) :
               Contains(description_lower, Head(cats).keywords[k])
    THEN Head(cats).name
    ELSE FirstCategory(Tail(cats), description_lower)

categorize(description) == FirstCategory(Categories, Lower(description))

\* abs(float(r["amount"]) - float(amount)) < 0.01, in thousandths
AmountsClose(a, b) == ~a.nan /\ ~b.nan /\ FAbs(a.v - b.v) < 10

\* a faulty check: the descriptions are compared as they are written
check_duplicate_exact(records, transaction_date, amount, description) ==
    \E k \in 1..Len(records) :
        /\ records[k].date = transaction_date
        /\ AmountsClose(records[k].amount, amount)
        /\ records[k].description = description

\* GoogleSheetsService.check_duplicate over the records of the sheet
check_duplicate(records, transaction_date, amount, description) ==
    \E k \in 1..Len(records) :
        /\ records[k].date = transaction_date
        /\ AmountsClose(records[k].amount, amount)
        /\ Lower(records[k].description) = Lower(description)

\* the row add_transaction appends
SheetRow(amount, category, description, user, t_date, source, card) ==
    [date |-> t_date, amount |-> amount, category |-> category,
     description |-> description, user |-> user, source |-> source, card |-> card]

\* a faulty add_transaction: an amount of zero passes the validation
add_transaction_zero_allowed(records, apiUp, amount, category, description, user, transaction_date, source, card) ==
    IF ~amount.nan /\ amount.v < 0
    THEN [raised |-> "InvalidDataError", sheet |-> records]
    ELSE IF ~apiUp
    THEN [raised |-> "APIError", sheet |-> records]
    ELSE IF check_duplicate(records, IsoFormat(transaction_date), amount, description)
    THEN [raised |-> "DuplicateTransactionError", sheet |-> records]
    ELSE [raised |-> "",
          sheet |-> Append(records, SheetRow(amount, category, description, user,
                                             IsoFormat(transaction_date), source, card))]

\* GoogleSheetsService.add_transaction on the Transactions sheet `records`;
\* apiUp is whether the Sheets API answers the calls it makes.  Gives the
\* exception raised ("" for none) and the sheet afterwards.
add_transaction(records, apiUp, amount, category, description, user, transaction_date, source, card) ==
    LET t_date == IsoFormat(transaction_date)
    IN  IF FLeZero(amount)
        THEN [raised |-> "InvalidDataError", sheet |-> records]
        ELSE IF ~apiUp
        THEN [raised |-> "APIError", sheet |-> records]
        ELSE IF check_duplicate(records, t_date, amount, description)
        THEN [raised |-> "DuplicateTransactionError", sheet |-> records]
        ELSE [raised |-> "",
              sheet |-> Append(records, SheetRow(amount, category, description, user,
                                                 t_date, source, card))]

(***************************************************************************)
(* The statements an import is run on                                      *)
(***************************************************************************)
MaxRows == 2

MaxRuns == 2

ChaseHeader ==
    <<"Transaction Date", "Post Date", "Description", "Category", "Type", "Amount", "Memo">>

AmexHeader == <<"Date", "Description", "Amount">>

DiscoverHeader == <<"Trans. Date", "Post Date", "Description", "Amount", "Category">>

CapitalOneHeader ==
    <<"Transaction Date", "Posted Date", "Card No.", "Description", "Category", "Debit",
      "Credit">>

CsvHeaders ==
    {ChaseHeader, AmexHeader, DiscoverHeader, CapitalOneHeader,
     <<" Foo", "Bar ", "Baz">>, <<" date", "DESCRIPTION ", "amount">>,
     <<"Date", "Description", "Amount", " Amount">>}

\* what a statement line says: its date text, its description, its amount cell
Entry(dateText, description, amount) ==
    [dateText |-> dateText, description |-> description, amount |-> amount]

CsvEntries ==
    {Entry("01/15/2025", "WHOLE FOODS", NumCell(-25000)),
     Entry("01/16/2025", "CHIPOTLE", NumCell(12500)),
     Entry("01/20/2025", "PAYMENT THANK YOU", NumCell(100000)),
     Entry("01/21/2025", "TARGET", NaNCell),
     Entry("not-a-date", "SHELL", StrCell("30.00")),
     Entry("01/22/2025", "COSTCO", StrCell("abc"))}

\* the cell of an entry under a column of the export; pd.read_csv gives NaN
\* for a blank field
EntryCell(column, entry) ==
    LET c == Strip(Lower(column))
    IN  IF c \in {"transaction date", "trans. date", "date", "post date", "posted date"}
        THEN (IF entry.dateText = "" THEN NaNCell ELSE StrCell(entry.dateText))
        ELSE IF c = "description" THEN StrCell(entry.description)
        ELSE IF c \in {"amount", "debit"} THEN entry.amount
        ELSE NaNCell

CsvRowOf(columns, entry) == [k \in 1..Len(columns) |-> EntryCell(columns[k], entry)]

\* the sequences over S of length at most n
RECURSIVE SeqsUpTo(_, _)
SeqsUpTo(S, n) ==
    IF n = 0 THEN {<<>>}
    ELSE LET shorter == SeqsUpTo(S, n - 1)
         IN  shorter \cup {Append(q, e) : q \in shorter, e \in S}

Statement(kind, readable, columns, rows, pages, broken) ==
    [kind |-> kind, readable |-> readable, columns |-> columns, rows |-> rows,
     pages |-> pages, broken |-> broken]

CsvFiles ==
    {Statement("csv", FALSE, <<>>, <<>>, <<>>, 0)}
    \cup {Statement("csv", TRUE, h, [k \in 1..Len(es) |-> CsvRowOf(h, es[k])], <<>>, 0) :
            h \in CsvHeaders, es \in SeqsUpTo(CsvEntries, MaxRows)}

PdfBanners ==
    {"JPMorgan Chase 01/31/2024", "chase.com American Express", "AMEX",
     "Discover Cashback", "Capital One May 2025", "Account summary", "  "}

PdfLines ==
    {"01/15 WHOLE FOODS 45.67", "01/16 PAYMENT THANK YOU 100.00",
     "1/17/24 AMAZON $1,234.56", "02/30 TARGET 9.99"}

PdfTables ==
    {<<>>,
     << << <<"Date", "Description", "Amount">>, <<"01/18", "COSTCO", "", "$80.00">>,
           <<"01/19", "AUTOPAY", "50.00">>, <<"01/20", "nan">> >> >>}

Page(tables, text) == [tables |-> tables, text |-> text]

\* banner and lines, one per line of the page
RECURSIVE PageText(_, _)
PageText(banner, lines) ==
    IF lines = <<>> THEN banner
    ELSE PageText(banner, SubSeq(lines, 1, Len(lines) - 1)) \o "\n" \o lines[Len(lines)]

\* broken = k > 0: pdfplumber raises when it extracts page k
PdfFiles ==
    {Statement("pdf", FALSE, <<>>, <<>>, <<>>, 0),
     Statement("pdf", TRUE, <<>>, <<>>, <<>>, 0)}
    \cup {Statement("pdf", TRUE, <<>>, <<>>, <<Page(t, PageText(b, ls))>>, 0) :
            t \in PdfTables, b \in PdfBanners, ls \in SeqsUpTo(PdfLines, MaxRows)}
    \cup {Statement("pdf", TRUE, <<>>, <<>>,
                    <<Page(<<>>, b), Page(<<>>, "01/15 WHOLE FOODS 45.67")>>, k) :
            b \in {"AMEX", "Account summary"}, k \in 0..2}

Callers == {[user |-> "user1", card |-> ""], [user |-> "user2", card |-> "Chase Freedom"]}

NoCaller == [user |-> "", card |-> ""]

(***************************************************************************)
(* import_csv and import_pdf                                               *)
(***************************************************************************)
\* a faulty join: the names in the reverse of their order
RECURSIVE JoinReversed(_)
JoinReversed(names) ==
    IF names = <<>> THEN ""
    ELSE IF Len(names) = 1 THEN names[1]
    ELSE JoinReversed(Tail(names)) \o ", " \o names[1]

\* ", ".join(names)
RECURSIVE JoinComma(_)
JoinComma(names) ==
    IF names = <<>> THEN ""
    ELSE IF Len(names) = 1 THEN names[1]
    ELSE names[1] \o ", " \o JoinComma(Tail(names))

SupportedBanks == "Supported banks: Chase, Amex, Discover, Capital One"

Raise(exc, msg, closes) ==
    [raised |-> exc, msg |-> msg, parser |-> NoParser, transactions |-> <<>>,
     closes |-> closes]

Extracted(parser, transactions, closes) ==
    [raised |-> "", msg |-> "", parser |-> parser, transactions |-> transactions,
     closes |-> closes]

\* import_csv after parser.parse(df)
CsvParsed(parser, parsed) ==
    IF parsed.raised # "" THEN Raise(parsed.raised, "", 0)
    ELSE Extracted(parser, parsed.txns, 0)

\* import_csv after detect_bank(df)
CsvDetected(parser, file) ==
    IF parser = NoParser
    THEN Raise("InvalidDataError",
               "Unrecognized CSV format. Columns found: "
                   \o JoinComma(file.columns) \o "\n" \o SupportedBanks, 0)
    ELSE CsvParsed(parser, CsvParse(parser, file))

\* import_csv up to its loop: read, empty check, detection, parse
CsvPrologue(file) ==
    IF ~file.readable
    THEN Raise("InvalidDataError", "Could not read CSV file", 0)
    ELSE IF file.rows = <<>>
    THEN Raise("InvalidDataError", "CSV file is empty.", 0)
    ELSE CsvDetected(detect_bank(file.columns), file)

\* import_pdf after detect_pdf_bank(first_page_text): statement year, parse,
\* close.  An exception of pdfplumber's extraction is not caught, nor is the
\* OverflowError of a table cell that _parse_date cannot turn into a date.
PdfDetected(parser, file) ==
    IF parser = NoParser
    THEN Raise("InvalidDataError",
               "Unrecognized PDF format. Could not identify the bank.\n"
                   \o SupportedBanks, 1)
    ELSE IF file.broken \in 2..Len(file.pages)
    THEN Raise("PDFSyntaxError", "", 0)
    ELSE IF ParseOverflows(parser, file.pages, _extract_year_from_text(FullText(file.pages)))
    THEN Raise("OverflowError", "", 0)
    ELSE Extracted(parser,
                   parse_transactions(parser, file.pages,
                                      _extract_year_from_text(FullText(file.pages))),
                   1)

\* a faulty import_pdf: the bank is detected before the text is looked at
PdfPrologueDetectFirst(file) ==
    IF ~file.readable
    THEN Raise("InvalidDataError", "Could not open PDF file", 0)
    ELSE IF file.pages = <<>>
    THEN Raise("InvalidDataError", "PDF has no pages.", 1)
    ELSE IF file.broken = 1
    THEN Raise("PDFSyntaxError", "", 0)
    ELSE IF detect_pdf_bank(file.pages[1].text) = NoParser
    THEN PdfDetected(NoParser, file)
    ELSE IF Strip(file.pages[1].text) = ""
    THEN Raise("InvalidDataError", "PDF has no extractable text (may be image-based).", 1)
    ELSE PdfDetected(detect_pdf_bank(file.pages[1].text), file)

\* import_pdf up to its loop: open, page and text checks, detection
PdfPrologue(file) ==
    IF ~file.readable
    THEN Raise("InvalidDataError", "Could not open PDF file", 0)
    ELSE IF file.pages = <<>>
    THEN Raise("InvalidDataError", "PDF has no pages.", 1)
    ELSE IF file.broken = 1
    THEN Raise("PDFSyntaxError", "", 0)
    ELSE IF Strip(file.pages[1].text) = ""
    THEN Raise("InvalidDataError", "PDF has no extractable text (may be image-based).", 1)
    ELSE PdfDetected(detect_pdf_bank(file.pages[1].text), file)

Prologue(file) == IF file.kind = "csv" THEN CsvPrologue(file) ELSE PdfPrologue(file)

\* a faulty tag: every import tags its records "csv"
SourceTagAlwaysCsv(kind) == "csv"

\* the source tag of the records an import writes
SourceTag(kind) == IF kind = "csv" THEN "csv" ELSE "statement"

\* what the loop body can raise: classes of services/exceptions.py and
\* gspread's APIError, all subclasses of Exception
ExceptionClasses ==
    {"InvalidDataError", "DuplicateTransactionError", "APIError", "SheetsConnectionError"}

IsException(raised) == raised \in ExceptionClasses

\* faulty try statements: one that counts a failure nowhere, one whose catch-all
\* clause comes first and takes the duplicates, one with no catch-all clause
CountedFailureNowhere(raised) ==
    IF raised = "" THEN "imported"
    ELSE IF raised = "DuplicateTransactionError" THEN "skipped_duplicates"
    ELSE "nowhere"

CountedCatchAllFirst(raised) == IF raised = "" THEN "imported" ELSE "errors"

CountedNoCatchAll(raised) ==
    IF raised = "" THEN "imported"
    ELSE IF raised = "DuplicateTransactionError" THEN "skipped_duplicates"
    ELSE "propagate"

\* the try statement of the loop body: the counter its clauses increment, or
\* "propagate" for an exception that no except clause names
Counted(raised) ==
    IF raised = "" THEN "imported"
    ELSE IF raised = "DuplicateTransactionError" THEN "skipped_duplicates"
    ELSE IF IsException(raised) THEN "errors"
    ELSE "propagate"

NoOutcome ==
    [kind |-> "none", exc |-> "", msg |-> "", imported |-> 0, skipped_duplicates |-> 0,
     errors |-> 0, bank |-> ""]

VARIABLES
    file,          \* the statement at filepath
    caller,        \* the user and card arguments
    pc,            \* "start", "loop", "done" (returned), "raised"
    parser,        \* bank_name of the detected parser
    transactions,  \* what the parser extracted
    idx,           \* position of the loop in transactions
    imported, skipped, errors,
    sheet,         \* records of the Transactions sheet
    outcome,       \* the returned summary or the raised exception
    calls,         \* categorize and add_transaction calls of this import, in order
    closes,        \* pdf.close() calls of this import
    run,           \* imports of this statement begun so far
    before,        \* the sheet when this import began
    pending        \* calls in flight: add_transaction of each concurrent caller, or
                   \* one call of a helper of pdf_parser.py

vars == <<file, caller, pc, parser, transactions, idx, imported, skipped, errors, sheet,
          outcome, calls, closes, run, before, pending>>

Init ==
    /\ file \in CsvFiles \cup PdfFiles
    /\ caller = NoCaller
    /\ pc = "start"
    /\ parser = NoParser
    /\ transactions = <<>>
    /\ idx = 1
    /\ imported = 0 /\ skipped = 0 /\ errors = 0
    /\ sheet = <<>>
    /\ outcome = NoOutcome
    /\ calls = <<>>
    /\ closes = 0
    /\ run = 1
    /\ before = <<>>
    /\ pending = <<>>

\* import_csv / import_pdf, called with a user and a card, up to the loop
Begin ==
    /\ pc = "start"
    /\ \E r \in {Prologue(file)} :
           /\ parser' = r.parser
           /\ transactions' = r.transactions
           /\ closes' = r.closes
           /\ IF r.raised = ""
              THEN pc' = "loop" /\ outcome' = outcome
              ELSE /\ pc' = "raised"
                   /\ outcome' = [NoOutcome EXCEPT !.kind = "raise", !.exc = r.raised,
                                                   !.msg = r.msg]
    /\ IF run = 1 THEN caller' \in Callers ELSE caller' = caller
    /\ UNCHANGED <<file, idx, imported, skipped, errors, sheet, calls, run, before, pending>>

\* a faulty iteration: add_transaction is called first, with the category
\* "Other", and the categorizer afterwards
LoopBodyAddFirst(records, txn, kind, user, card, categorizerUp, apiUp) ==
    LET r == add_transaction(records, apiUp, txn.amount, "Other", txn.description,
                             user, txn.date, SourceTag(kind), card)
    IN  [sheet |-> r.sheet,
         raised |-> r.raised,
         counter |-> Counted(r.raised),
         calls |-> <<[op |-> "add_transaction", description |-> txn.description,
                      amount |-> txn.amount, user |-> user,
                      source |-> SourceTag(kind), card |-> card,
                      raised |-> r.raised],
                     [op |-> "categorize", description |-> txn.description,
                      amount |-> NaN, user |-> "", source |-> "", card |-> "",
                      raised |-> ""]>>]

\* a faulty iteration: when the categorizer fails, add_transaction is called
\* all the same, with the category "Other"
LoopBodyAddAnyway(records, txn, kind, user, card, categorizerUp, apiUp) ==
    LET r == add_transaction(records, apiUp, txn.amount,
                             IF categorizerUp THEN categorize(txn.description) ELSE "Other",
                             txn.description, user, txn.date, SourceTag(kind), card)
    IN  [sheet |-> r.sheet,
         raised |-> r.raised,
         counter |-> Counted(r.raised),
         calls |-> <<[op |-> "categorize", description |-> txn.description,
                      amount |-> NaN, user |-> "", source |-> "", card |-> "",
                      raised |-> IF categorizerUp THEN "" ELSE "SheetsConnectionError"],
                     [op |-> "add_transaction", description |-> txn.description,
                      amount |-> txn.amount, user |-> user,
                      source |-> SourceTag(kind), card |-> card,
                      raised |-> r.raised]>>]

\* what one iteration of `for txn in transactions` does with txn
LoopBody(records, txn, kind, user, card, categorizerUp, apiUp) ==
    LET category == categorize(txn.description)
        r == IF categorizerUp
             THEN add_transaction(records, apiUp, txn.amount, category, txn.description,
                                  user, txn.date, SourceTag(kind), card)
             ELSE [raised |-> "SheetsConnectionError", sheet |-> records]
    IN  [sheet |-> r.sheet,
         raised |-> r.raised,
         counter |-> Counted(r.raised),
         calls |-> <<[op |-> "categorize", description |-> txn.description,
                      amount |-> NaN, user |-> "", source |-> "", card |-> "",
                      raised |-> IF categorizerUp THEN "" ELSE r.raised]>>
                   \o (IF categorizerUp
                       THEN <<[op |-> "add_transaction", description |-> txn.description,
                               amount |-> txn.amount, user |-> user,
                               source |-> SourceTag(kind), card |-> card,
                               raised |-> r.raised]>>
                       ELSE <<>>)]

\* one iteration of the loop; categorizerUp and apiUp are whether the
\* categorizer and the Sheets API answer
ImportRow ==
    /\ pc = "loop"
    /\ idx <= Len(transactions)
    /\ \E categorizerUp \in BOOLEAN, apiUp \in BOOLEAN :
          \E b \in {LoopBody(sheet, transactions[idx], file.kind, caller.user, caller.card,
                             categorizerUp, apiUp)} :
              /\ sheet' = b.sheet
              /\ imported' = IF b.counter = "imported" THEN imported + 1 ELSE imported
              /\ skipped' = IF b.counter = "skipped_duplicates" THEN skipped + 1 ELSE skipped
              /\ errors' = IF b.counter = "errors" THEN errors + 1 ELSE errors
              /\ calls' = calls \o b.calls
              /\ IF b.counter = "propagate"
                 THEN /\ pc' = "raised"
                      /\ outcome' = [NoOutcome EXCEPT !.kind = "raise", !.exc = b.raised]
                 ELSE pc' = pc /\ outcome' = outcome
    /\ idx' = idx + 1
    /\ UNCHANGED <<file, caller, parser, transactions, closes, run, before, pending>>

\* the return statement after the loop
Return ==
    /\ pc = "loop"
    /\ idx > Len(transactions)
    /\ pc' = "done"
    /\ outcome' = [kind |-> "return", exc |-> "", msg |-> "", imported |-> imported,
                   skipped_duplicates |-> skipped, errors |-> errors, bank |-> parser]
    /\ UNCHANGED <<file, caller, parser, transactions, idx, imported, skipped, errors,
                   sheet, calls, closes, run, before, pending>>

\* the caller imports the same statement again, for the same user and card
Rerun ==
    /\ pc \in {"done", "raised"}
    /\ run < MaxRuns
    /\ run' = run + 1
    /\ pc' = "start"
    /\ parser' = NoParser
    /\ transactions' = <<>>
    /\ idx' = 1
    /\ imported' = 0 /\ skipped' = 0 /\ errors' = 0
    /\ outcome' = NoOutcome
    /\ calls' = <<>>
    /\ closes' = 0
    /\ before' = sheet
    /\ UNCHANGED <<file, caller, sheet, pending>>

Next == Begin \/ ImportRow \/ Return \/ Rerun

Spec == Init /\ [][Next]_vars
(***************************************************************************)
(* Properties of an import                                                 *)
(***************************************************************************)
\* the calls of this import that add_transaction rejected as duplicates
DuplicateCalls == {k \in DOMAIN calls : calls[k].raised = "DuplicateTransactionError"}

\* the calls of this import that failed in any other way
FailedCalls == {k \in DOMAIN calls : calls[k].raised \notin {"", "DuplicateTransactionError"}}

\* C1: every pass of the loop increments exactly one of imported,
\* skipped_duplicates and errors, by one, and the three numbers an import
\* returns add up to the number of transactions extracted.
C1_EachTransactionCountedOnce ==
    /\ [][pc = "loop" /\ idx' = idx + 1 =>
            <<imported', skipped', errors'>> \in
                {<<imported + 1, skipped, errors>>, <<imported, skipped + 1, errors>>,
                 <<imported, skipped, errors + 1>>}]_vars
    /\ [](pc = "done" =>
            outcome.imported + outcome.skipped_duplicates + outcome.errors
                = Len(transactions))

\* an import of two transactions returned, one imported and one failed
C1_Witness ==
    /\ pc = "done"
    /\ Len(transactions) = 2
    /\ outcome.imported = 1
    /\ outcome.errors = 1

\* C2: a transaction add_transaction rejects as a duplicate is counted in
\* skipped_duplicates and not in errors: skipped_duplicates is the number of
\* duplicate rejections and errors the number of other failures.
C2_DuplicateIsSkippedNotError ==
    pc \in {"loop", "done"} =>
        /\ skipped = Cardinality(DuplicateCalls)
        /\ errors = Cardinality(FailedCalls)

\* an import returned after a duplicate rejection, with no error counted
C2_Witness ==
    /\ pc = "done"
    /\ DuplicateCalls # {}
    /\ outcome.skipped_duplicates >= 1
    /\ outcome.errors = 0

\* C3: when an import raises, it has called neither categorize nor
\* add_transaction.
C3_RaiseBeforeAnyCall == pc = "raised" => calls = <<>>

\* an import of a table with rows raised InvalidDataError (no parser matched)
C3_Witness ==
    /\ pc = "raised"
    /\ outcome.exc = "InvalidDataError"
    /\ file.kind = "csv"
    /\ file.rows # <<>>

\* C4: the only exception that leaves an import is InvalidDataError.
C4_OnlyInvalidDataErrorEscapes == pc = "raised" => outcome.exc = "InvalidDataError"

\* the store held a record of this date, amount and description
Held(records, txn) ==
    \E k \in DOMAIN records :
        /\ records[k].date = IsoFormat(txn.date)
        /\ records[k].amount = txn.amount
        /\ records[k].description = txn.description

\* C5: importing a statement again, into a store that already holds all of
\* its transactions and with the categorizer and the store answering, returns
\* imported = 0, skipped_duplicates = N and errors = 0 and leaves the store
\* as it was.
C5_RerunIsIdempotent ==
    (/\ pc = "done"
     /\ run > 1
     /\ \A k \in DOMAIN transactions : Held(before, transactions[k])
     /\ FailedCalls = {})
        => /\ outcome.imported = 0
           /\ outcome.skipped_duplicates = Len(transactions)
           /\ outcome.errors = 0
           /\ sheet = before

\* C6: every transaction an extractor outputs, and every amount passed to
\* add_transaction, is greater than zero.
C6_AmountsArePositive ==
    /\ \A k \in DOMAIN transactions : FGtZero(transactions[k].amount)
    /\ \A k \in DOMAIN calls :
          calls[k].op = "add_transaction" => FGtZero(calls[k].amount)

\* C7 as stated: no extractor, of a table or of a document, outputs a
\* transaction whose description the payment classifier matches.
C7_NoExtractorOutputsPayment ==
    \A k \in DOMAIN transactions : ~_is_payment(transactions[k].description)

\* C7: no extractor of a PDF document outputs a transaction whose description
\* the payment classifier matches (the extractors of CSV tables look at the
\* sign or the debit column only).
C7_PdfExtractorsDropPayments ==
    file.kind = "pdf" =>
        \A k \in DOMAIN transactions : ~_is_payment(transactions[k].description)

\* a document one of whose text pages has a payment line gave transactions
C7_Witness ==
    /\ file.kind = "pdf"
    /\ pc = "done"
    /\ transactions # <<>>
    /\ \E p \in DOMAIN file.pages :
          /\ file.pages[p].tables = <<>>
          /\ Contains(file.pages[p].text, "PAYMENT THANK YOU")

\* names[1], then ", " and names[k] for each further k up to n
RECURSIVE ListedUpTo(_, _)
ListedUpTo(names, n) ==
    IF n = 0 THEN ""
    ELSE IF n = 1 THEN names[1]
    ELSE ListedUpTo(names, n - 1) \o ", " \o names[n]

\* no parser of the table, and no parser of the document, accepts the file
NoProfileMatches(f) ==
    IF f.kind = "csv"
    THEN /\ f.readable
         /\ f.rows # <<>>
         /\ ~ChaseCanParse(f.columns) /\ ~AmexCanParse(f.columns)
         /\ ~DiscoverCanParse(f.columns) /\ ~CapitalOneCanParse(f.columns)
    ELSE /\ f.readable
         /\ f.pages # <<>>
         /\ f.broken # 1
         /\ \E k \in 1..Len(f.pages[1].text) :
               SubSeq(f.pages[1].text, k, k) \notin Whitespace
         /\ ~ChasePdfCanParse(f.pages[1].text) /\ ~AmexPdfCanParse(f.pages[1].text)
         /\ ~DiscoverPdfCanParse(f.pages[1].text)
         /\ ~CapitalOnePdfCanParse(f.pages[1].text)

\* C11: when no parser accepts a non-empty table, import_csv raises
\* InvalidDataError with a message that lists the column names of the file
\* as they are written and in their order, and then the supported banks
\* Chase, Amex, Discover, Capital One; when no parser accepts the first page
\* of a document, import_pdf raises InvalidDataError saying that the bank
\* could not be identified, with the same list of supported banks.
C11_UnrecognizedNamesColumnsAndBanks ==
    [][(pc = "start" /\ NoProfileMatches(file)) =>
          /\ pc' = "raised"
          /\ outcome'.exc = "InvalidDataError"
          /\ outcome'.msg =
                IF file.kind = "csv"
                THEN "Unrecognized CSV format. Columns found: "
                         \o ListedUpTo(file.columns, Len(file.columns))
                         \o "\nSupported banks: Chase, Amex, Discover, Capital One"
                ELSE "Unrecognized PDF format. Could not identify the bank."
                         \o "\nSupported banks: Chase, Amex, Discover, Capital One"]_vars

\* the import of a table whose columns are " Foo", "Bar " and "Baz" raised
C11_Witness ==
    /\ pc = "raised"
    /\ file.kind = "csv"
    /\ file.rows # <<>>
    /\ file.columns = <<" Foo", "Bar ", "Baz">>
    /\ outcome.msg = "Unrecognized CSV format. Columns found:  Foo, Bar , Baz\nSupported banks: Chase, Amex, Discover, Capital One"
\* the first page of the document gives no text, or white space only
FirstPageBlank(f) ==
    /\ f.kind = "pdf"
    /\ f.readable
    /\ f.pages # <<>>
    /\ f.broken # 1
    /\ \A k \in 1..Len(f.pages[1].text) : SubSeq(f.pages[1].text, k, k) \in Whitespace

\* C12: a document whose first page has no text, or only white space, makes
\* import_pdf raise the InvalidDataError that says there is no extractable
\* text, never the one that says the bank is unrecognized: the text is looked
\* at before the bank is detected, and an import raises one or the other.
C12_NoTextBeforeDetection ==
    /\ (pc # "start" /\ FirstPageBlank(file)) =>
          /\ pc = "raised"
          /\ outcome.exc = "InvalidDataError"
          /\ outcome.msg = "PDF has no extractable text (may be image-based)."
    /\ (pc = "raised" /\ file.kind = "pdf"
           /\ outcome.msg = "PDF has no extractable text (may be image-based).")
          => FirstPageBlank(file)

\* the import of a document whose first page has a table and blank text raised
C12_Witness ==
    /\ pc = "raised"
    /\ FirstPageBlank(file)
    /\ file.pages[1].text = "  "
    /\ file.pages[1].tables # <<>>
    /\ outcome.msg = "PDF has no extractable text (may be image-based)."
\* the add_transaction calls of this import
AddCalls == {k \in DOMAIN calls : calls[k].op = "add_transaction"}

\* C13: every add_transaction call of import_csv carries source "csv", every
\* one of import_pdf carries source "statement", and each carries the card
\* and the user the import was called with, for all transactions of the
\* import.
C13_CallsCarrySourceCardUser ==
    \A k \in AddCalls :
        /\ file.kind = "csv" => calls[k].source = "csv"
        /\ file.kind = "pdf" => calls[k].source = "statement"
        /\ calls[k].card = caller.card
        /\ calls[k].user = caller.user

\* an import of a document made two add_transaction calls for user2's card
C13_Witness ==
    /\ pc = "done"
    /\ file.kind = "pdf"
    /\ Cardinality(AddCalls) = 2
    /\ caller = [user |-> "user2", card |-> "Chase Freedom"]
\* the categorize calls of this import, in the order they were made
CategorizeCalls == SelectSeq(calls, LAMBDA c : c.op = "categorize")

\* C14: the categorizer is called once for each extracted transaction, with
\* the description of that transaction, in the order of extraction; the
\* add_transaction call for a transaction comes right after its categorize
\* call and before the categorize call of the next transaction; nothing
\* else reaches the categorizer.
C14_CategorizeThenAddInOrder ==
    pc \in {"loop", "done"} =>
        /\ Len(CategorizeCalls) = idx - 1
        /\ \A j \in DOMAIN CategorizeCalls :
              CategorizeCalls[j].description = transactions[j].description
        /\ pc = "done" => Len(CategorizeCalls) = Len(transactions)
        /\ \A k \in DOMAIN calls :
              IF calls[k].op = "add_transaction"
              THEN /\ k > 1
                   /\ calls[k - 1].op = "categorize"
                   /\ calls[k - 1].raised = ""
                   /\ calls[k - 1].description = calls[k].description
              ELSE IF calls[k].raised = ""
              THEN /\ k < Len(calls)
                   /\ calls[k + 1].op = "add_transaction"
              ELSE k < Len(calls) => calls[k + 1].op = "categorize"

\* an import of two transactions returned, the categorizer having failed for
\* the first and answered for the second
C14_Witness ==
    /\ pc = "done"
    /\ Len(transactions) = 2
    /\ transactions[1].description # transactions[2].description
    /\ Len(calls) = 3
    /\ calls[1].raised # ""
    /\ calls[3].op = "add_transaction"
\* the cell holds a number below zero, as a float or as its text
RawNegative(cell) ==
    /\ cell.k \in {"num", "str"}
    /\ PyFloat(cell).ok
    /\ ~PyFloat(cell).val.nan
    /\ PyFloat(cell).val.v < 0

\* the rows of the table whose Amount is negative
NegativeRows == {k \in DOMAIN file.rows : RawNegative(Cell(file.columns, file.rows[k], "Amount"))}

\* C15: an import of a Chase table, none of whose add_transaction calls the
\* store rejected, returns imported = the number of rows whose raw Amount is
\* negative, skipped_duplicates = 0, errors = 0 and bank = "Chase", and has
\* called add_transaction once for each such row and for no other row.
C15_ChaseImportsNegativeRows ==
    (/\ pc = "done"
     /\ file.kind = "csv"
     /\ file.columns = ChaseHeader
     /\ DuplicateCalls = {}
     /\ FailedCalls = {})
        => /\ outcome.imported = Cardinality(NegativeRows)
           /\ outcome.skipped_duplicates = 0
           /\ outcome.errors = 0
           /\ outcome.bank = "Chase"
           /\ Cardinality(AddCalls) = Cardinality(NegativeRows)
\* the categorize calls of this import that raised
CategorizerFailures == {k \in DOMAIN calls : calls[k].op = "categorize" /\ calls[k].raised # ""}

\* the add_transaction calls of this import that raised something other than
\* DuplicateTransactionError
AddFailures ==
    {k \in AddCalls : calls[k].raised \notin {"", "DuplicateTransactionError"}}

\* C28: an exception of the categorizer is counted in errors, add_transaction
\* is not called for that transaction, and the loop goes on to the next one:
\* the add_transaction calls number the transactions handled less the
\* categorizer failures, and the import returns after the last transaction.
C28_CategorizerFailureCountedNotStored ==
    pc \in {"loop", "done"} =>
        /\ Cardinality(AddCalls) = (idx - 1) - Cardinality(CategorizerFailures)
        /\ errors = Cardinality(CategorizerFailures) + Cardinality(AddFailures)
        /\ \A k \in CategorizerFailures :
              k < Len(calls) => calls[k + 1].op = "categorize"
        /\ pc = "done" =>
              /\ idx - 1 = Len(transactions)
              /\ outcome.errors = errors

\* the categorizer answered for the first of two transactions and failed for
\* the second: one record imported, one error, one add_transaction call
C28_Witness ==
    /\ pc = "done"
    /\ Len(transactions) = 2
    /\ Len(calls) = 3
    /\ calls[2].op = "add_transaction" /\ calls[2].raised = ""
    /\ calls[3].op = "categorize" /\ calls[3].raised # ""
    /\ outcome.imported = 1 /\ outcome.errors = 1
\* import_pdf has opened the document and has left its prologue
OpenedAndLeft == file.kind = "pdf" /\ file.readable /\ pc \in {"raised", "loop", "done"}

\* C29: once pdfplumber.open has succeeded, import_pdf closes the document
\* exactly once on every exit path: no pages, no extractable text,
\* unrecognized bank, a failure of the extraction, the normal return; on the
\* normal path it is closed before the first categorize or add_transaction
\* call.
C29_ClosedOnceOnEveryExit ==
    /\ OpenedAndLeft => closes = 1
    /\ (file.kind = "pdf" /\ calls # <<>>) => closes = 1

\* C29 for the documents whose pages pdfplumber extracts without an exception
C29_ClosedOnceWhenExtractionSucceeds ==
    /\ (OpenedAndLeft /\ file.broken = 0) => closes = 1
    /\ (file.kind = "pdf" /\ calls # <<>>) => closes = 1

\* the extraction of the second page raised and import_pdf was left with the
\* document open
C29_LeftOpenAfterExtractionFailure ==
    /\ OpenedAndLeft /\ file.broken = 2
    /\ pc = "raised" /\ outcome.exc = "PDFSyntaxError"
    /\ closes = 0
\* the records of the sheet with the date, amount and description of txn
RecordsOf(records, txn) ==
    {i \in DOMAIN records :
        /\ records[i].date = IsoFormat(txn.date)
        /\ records[i].amount = txn.amount
        /\ records[i].description = txn.description}

\* the transactions extracted, as a set: one element for each distinct date,
\* amount and description
Fingerprints == {transactions[k] : k \in DOMAIN transactions}

\* C30: an import into the record store during which nothing failed leaves
\* the store with exactly one record for each distinct date, amount and
\* description among the extracted transactions; imported is the number of
\* those not in the store before, and every other transaction, a second
\* identical row of the statement included, is counted in skipped_duplicates.
C30_OneRecordPerFingerprint ==
    (pc = "done" /\ FailedCalls = {}) =>
        /\ \A txn \in Fingerprints : Cardinality(RecordsOf(sheet, txn)) = 1
        /\ outcome.imported = Cardinality({txn \in Fingerprints : RecordsOf(before, txn) = {}})
        /\ outcome.skipped_duplicates = Len(transactions) - outcome.imported

\* C30 for the statements all of whose extracted amounts are numbers
C30_OneRecordPerNumberFingerprint ==
    (pc = "done" /\ FailedCalls = {} /\ \A txn \in Fingerprints : ~txn.amount.nan) =>
        /\ \A txn \in Fingerprints : Cardinality(RecordsOf(sheet, txn)) = 1
        /\ outcome.imported = Cardinality({txn \in Fingerprints : RecordsOf(before, txn) = {}})
        /\ outcome.skipped_duplicates = Len(transactions) - outcome.imported

\* two identical rows with an empty Amount were both imported
C30_BlankAmountRowsStoredTwice ==
    /\ pc = "done" /\ FailedCalls = {} /\ run = 1
    /\ Len(transactions) = 2 /\ transactions[1] = transactions[2]
    /\ transactions[1].amount.nan
    /\ outcome.imported = 2 /\ Len(sheet) = 2

\* the second of two identical purchase rows was skipped as a duplicate
C30_SecondIdenticalRowSkipped ==
    /\ pc = "done" /\ FailedCalls = {} /\ run = 1
    /\ Len(transactions) = 2 /\ transactions[1] = transactions[2]
    /\ outcome.imported = 1 /\ outcome.skipped_duplicates = 1 /\ Len(sheet) = 1
\* ---- end of the properties of an import ----
(***************************************************************************)
(* Bank detection on its own: detect_bank over the column names of a       *)
(* table, detect_pdf_bank over the text of a first page                    *)
(***************************************************************************)
MaxFrags == 2

\* column names of the four exports, of other exports, and spellings of
\* them in other case and with blanks around
ColumnPool ==
    <<"Transaction Date", "Post Date", "Date", "Trans. Date", "Description", "Amount",
      "Debit", "Credit", "Category", " transaction date", "AMOUNT ", "DESCRIPTION">>

\* the tables: every selection of columns of the pool, in the pool's order
DetectTables ==
    {SelectSeq(ColumnPool, LAMBDA c : c \in S) :
        S \in SUBSET {ColumnPool[k] : k \in 1..Len(ColumnPool)}}

\* what a first page can say about its bank
TextFragments ==
    {"JPMorgan Chase", "chase.com", "American Express", "AMEX", "Discover",
     "discover.com", "Cashback", "Capital One", "Statement"}

\* first-page texts: at most n fragments, one per line
RECURSIVE DetectTexts(_)
DetectTexts(n) ==
    IF n = 0 THEN {""}
    ELSE LET shorter == DetectTexts(n - 1)
         IN  shorter \cup {IF t = "" THEN f ELSE t \o "\n" \o f :
                               t \in shorter, f \in TextFragments}

DetectInputs ==
    {Statement("csv", TRUE, columns, <<>>, <<>>, 0) : columns \in DetectTables}
        \cup {Statement("pdf", TRUE, <<>>, <<>>, <<Page(<<>>, text)>>, 0) :
                  text \in DetectTexts(MaxFrags)}

DetectInit ==
    /\ file \in DetectInputs
    /\ caller = NoCaller
    /\ pc = "start"
    /\ parser = NoParser
    /\ transactions = <<>>
    /\ idx = 1
    /\ imported = 0 /\ skipped = 0 /\ errors = 0
    /\ sheet = <<>>
    /\ outcome = NoOutcome
    /\ calls = <<>>
    /\ closes = 0
    /\ run = 1
    /\ before = <<>>
    /\ pending = <<>>

\* detect_bank(df)
DetectCsv ==
    /\ pc = "start"
    /\ file.kind = "csv"
    /\ parser' = detect_bank(file.columns)
    /\ pc' = "detected"
    /\ UNCHANGED <<file, caller, transactions, idx, imported, skipped, errors, sheet,
                   outcome, calls, closes, run, before, pending>>

\* detect_pdf_bank(first_page_text)
DetectPdf ==
    /\ pc = "start"
    /\ file.kind = "pdf"
    /\ parser' = detect_pdf_bank(file.pages[1].text)
    /\ pc' = "detected"
    /\ UNCHANGED <<file, caller, transactions, idx, imported, skipped, errors, sheet,
                   outcome, calls, closes, run, before, pending>>

DetectNext == DetectCsv \/ DetectPdf

SpecDetect == DetectInit /\ [][DetectNext]_vars
(***************************************************************************)
(* Properties of detection                                                 *)
(***************************************************************************)
\* C8: detect_bank gives the first parser that matches in the order Capital
\* One, Chase, Discover, Amex (none when none matches), so a table with
\* Transaction Date, Description, Amount, Debit and Credit is Capital One's.
C8_TabularDetectionOrder ==
    (pc = "detected" /\ file.kind = "csv") =>
        /\ parser = IF CapitalOneCanParse(file.columns) THEN "Capital One"
                    ELSE IF ChaseCanParse(file.columns) THEN "Chase"
                    ELSE IF DiscoverCanParse(file.columns) THEN "Discover"
                    ELSE IF AmexCanParse(file.columns) THEN "Amex"
                    ELSE NoParser
        /\ {"transaction date", "description", "amount", "debit", "credit"}
               \subseteq ColSet(file.columns) => parser = "Capital One"

\* a table that both Capital One's and Chase's parser match was detected as
\* Capital One
C8_Witness ==
    /\ pc = "detected"
    /\ file.kind = "csv"
    /\ CapitalOneCanParse(file.columns)
    /\ ChaseCanParse(file.columns)
    /\ parser = "Capital One"

\* C9: a table is detected as Amex only if it has Date, Description and
\* Amount and none of Debit, Credit, Post Date, Trans. Date and Transaction
\* Date.
C9_AmexExcludesOtherColumns ==
    (pc = "detected" /\ file.kind = "csv" /\ parser = "Amex") =>
        /\ {"date", "description", "amount"} \subseteq ColSet(file.columns)
        /\ ColSet(file.columns)
               \cap {"debit", "credit", "post date", "trans. date", "transaction date"}
               = {}

\* C10: detect_pdf_bank gives the first parser that matches the first-page
\* text in the order Chase, Amex, Discover, Capital One, none when none
\* matches; the result is a function of the text.
C10_DocumentDetectionOrder ==
    (pc = "detected" /\ file.kind = "pdf") =>
        parser = IF ChasePdfCanParse(file.pages[1].text) THEN "Chase"
                 ELSE IF AmexPdfCanParse(file.pages[1].text) THEN "Amex"
                 ELSE IF DiscoverPdfCanParse(file.pages[1].text) THEN "Discover"
                 ELSE IF CapitalOnePdfCanParse(file.pages[1].text) THEN "Capital One"
                 ELSE NoParser

\* a first page that both Chase's and Amex's parser match was detected as
\* Chase
C10_Witness ==
    /\ pc = "detected"
    /\ file.kind = "pdf"
    /\ ChasePdfCanParse(file.pages[1].text)
    /\ AmexPdfCanParse(file.pages[1].text)
    /\ parser = "Chase"

(***************************************************************************)
(* Extraction on its own: parser.parse(df) over the tables of the four     *)
(* exports, parser.parse_transactions over the pages of a document         *)
(***************************************************************************)
\* statement lines: purchases and payments under either sign convention, a
\* zero amount, and lines with a blank or unparseable amount or date
ExtractEntries ==
    {Entry("01/15/2025", "WHOLE FOODS", NumCell(-25000)),
     Entry("01/16/2025", "CHIPOTLE", NumCell(-12500)),
     Entry("01/17/2025", "AMAZON", NumCell(45670)),
     Entry("01/20/2025", "PAYMENT THANK YOU", NumCell(100000)),
     Entry("01/21/2025", "FEE WAIVED", NumCell(0)),
     Entry("01/21/2025", "TARGET", NaNCell),
     Entry("01/22/2025", "COSTCO", StrCell("abc")),
     Entry("not-a-date", "SHELL", NumCell(-30000)),
     Entry("13/45/2025", "EXXON", NumCell(30000)),
     Entry("", "UBER", NumCell(-18000)),
     Entry("", "LYFT", NumCell(18000))}

ExtractHeaders ==
    {ChaseHeader, AmexHeader, DiscoverHeader, CapitalOneHeader,
     <<"Date", "Description", "Amount", " Amount">>,
     <<"transaction date", "post date", "description", "category", "type", "AMOUNT",
       "memo">>}

\* the tables of a page: none, a Chase table, a table none of whose rows is a
\* purchase, a Discover table with its Post Date column, a table with a date
\* cell too wide for date()
ExtractTables ==
    PdfTables
    \cup {<< << <<"Date", "Description", "Amount">>, <<"01/19", "AUTOPAY", "50.00">> >> >>,
          << << <<"Trans. Date", "Post Date", "Description", "Amount">>,
                <<"01/15", "01/16", "AMAZON", "45.67">> >> >>,
          << << <<"99999999999/1", "COSTCO", "5.00">> >> >>}

ExtractBanners ==
    {"JPMorgan Chase 01/31/2024", "JPMorgan Chase May 2025", "AMEX", "Discover Cashback",
     "Capital One May 2025"}

\* the pages after the first
ExtractTails ==
    {<<>>, <<Page(<<>>, "Closing 01/31/2024\n01/21 SHELL 30.00")>>,
     <<Page(<< << <<"01/22", "EXXON", "41.00">> >> >>, "01/23 UBER 12.50")>>}

ExtractPdfs ==
    {Statement("pdf", TRUE, <<>>, <<>>, <<Page(t, PageText(b, ls))>> \o tail, 0) :
        t \in ExtractTables, b \in ExtractBanners, ls \in SeqsUpTo(PdfLines, MaxRows),
        tail \in ExtractTails}

ExtractInputs ==
    {Statement("csv", TRUE, h, [k \in 1..Len(es) |-> CsvRowOf(h, es[k])], <<>>, 0) :
        h \in ExtractHeaders, es \in SeqsUpTo(ExtractEntries, MaxRows)}
        \cup {f \in PdfFiles :
                  /\ f.readable /\ f.pages # <<>> /\ f.broken = 0
                  /\ detect_pdf_bank(f.pages[1].text) # NoParser}
        \cup ExtractPdfs

ExtractInit ==
    /\ file \in ExtractInputs
    /\ caller = NoCaller
    /\ pc = "start"
    /\ parser = NoParser
    /\ transactions = <<>>
    /\ idx = 1
    /\ imported = 0 /\ skipped = 0 /\ errors = 0
    /\ sheet = <<>>
    /\ outcome = NoOutcome
    /\ calls = <<>>
    /\ closes = 0
    /\ run = 1
    /\ before = <<>>
    /\ pending = <<>>

\* parser.parse(df) of the parser detect_bank gives
ExtractCsv ==
    /\ pc = "start"
    /\ file.kind = "csv"
    /\ parser' = detect_bank(file.columns)
    /\ \E parsed \in {CsvParse(detect_bank(file.columns), file)} :
          /\ transactions' = parsed.txns
          /\ outcome' = [NoOutcome EXCEPT !.kind = IF parsed.raised = "" THEN "return"
                                                    ELSE "raise",
                                          !.exc = parsed.raised]
    /\ pc' = "extracted"
    /\ UNCHANGED <<file, caller, idx, imported, skipped, errors, sheet, calls, closes, run,
                   before, pending>>

\* parser.parse_transactions(pdf, statement_year) of the parser
\* detect_pdf_bank gives
ExtractPdf ==
    /\ pc = "start"
    /\ file.kind = "pdf"
    /\ parser' = detect_pdf_bank(file.pages[1].text)
    /\ \E parsed \in {PdfDetected(detect_pdf_bank(file.pages[1].text), file)} :
          /\ transactions' = parsed.transactions
          /\ outcome' = [NoOutcome EXCEPT !.kind = IF parsed.raised = "" THEN "return"
                                                   ELSE "raise",
                                          !.exc = parsed.raised]
    /\ pc' = "extracted"
    /\ UNCHANGED <<file, caller, idx, imported, skipped, errors, sheet, calls, closes, run,
                   before, pending>>

ExtractNext == ExtractCsv \/ ExtractPdf

SpecExtract == ExtractInit /\ [][ExtractNext]_vars
(***************************************************************************)
(* Properties of extraction                                                *)
(***************************************************************************)
\* the columns of the export a parser reads the amount and the date from
AmountColumn(bank) == IF bank = "Capital One" THEN "Debit" ELSE "Amount"

DateColumn(bank) ==
    CASE bank = "Chase" -> "Transaction Date"
      [] bank = "Amex" -> "Date"
      [] bank = "Discover" -> "Trans. Date"
      [] bank = "Capital One" -> "Transaction Date"

\* the cell holds a number, as a float or as its text
HoldsNumber(cell) ==
    /\ cell.k \in {"num", "str"}
    /\ PyFloat(cell).ok
    /\ ~PyFloat(cell).val.nan

\* the cell holds the text of a calendar date
HoldsDate(cell) ==
    /\ cell.k = "str"
    /\ ToDatetimeDate(cell).ok
    /\ ToDatetimeDate(cell).val # NaT

RawAmount(k) == Cell(StripColumns(file.columns), file.rows[k], AmountColumn(parser))

RawDate(k) == Cell(StripColumns(file.columns), file.rows[k], DateColumn(parser))

RawDescription(k) == Cell(StripColumns(file.columns), file.rows[k], "Description")

\* row k is a purchase under the sign convention of the bank: a negative
\* Amount for Chase, a positive Amount for Amex and Discover, a positive
\* Debit for Capital One
IsPurchaseRow(k) ==
    /\ HoldsDate(RawDate(k))
    /\ HoldsNumber(RawAmount(k))
    /\ IF parser = "Chase" THEN PyFloat(RawAmount(k)).val.v < 0
       ELSE PyFloat(RawAmount(k)).val.v > 0

\* row k is a payment or a credit: an amount that is not a purchase's, or
\* for Capital One an empty Debit
IsPaymentRow(k) ==
    /\ HoldsDate(RawDate(k))
    /\ \/ HoldsNumber(RawAmount(k)) /\ ~IsPurchaseRow(k)
       \/ parser = "Capital One" /\ IsNa(RawAmount(k))

\* the purchase rows of the table, in row order
PurchaseRows == SelectSeq([k \in 1..Len(file.rows) |-> k], IsPurchaseRow)

\* C16: for each of the four exports, the parser applied to a table of
\* purchase rows and payment or credit rows outputs one transaction for each
\* purchase row, in row order, whose amount is the absolute value of the raw
\* amount of the row, and none for the other rows.
C16_OneTransactionPerPurchaseRow ==
    (/\ pc = "extracted"
     /\ file.kind = "csv"
     /\ file.columns \in {ChaseHeader, AmexHeader, DiscoverHeader, CapitalOneHeader}
     /\ \A k \in 1..Len(file.rows) : IsPurchaseRow(k) \/ IsPaymentRow(k))
        => /\ outcome.exc = ""
           /\ Len(transactions) = Len(PurchaseRows)
           /\ \A j \in 1..Len(PurchaseRows) :
                 /\ transactions[j].date = ToDatetimeDate(RawDate(PurchaseRows[j])).val
                 /\ transactions[j].description = RawDescription(PurchaseRows[j]).s
                 /\ transactions[j].amount = Num(FAbs(PyFloat(RawAmount(PurchaseRows[j])).val.v))

\* the Chase parser gave one transaction of 25.00 for a table of a payment
\* row and then a purchase row of -25.00
C16_Witness ==
    /\ pc = "extracted"
    /\ parser = "Chase"
    /\ Len(file.rows) = 2
    /\ IsPaymentRow(1)
    /\ IsPurchaseRow(2)
    /\ transactions = <<Txn(MkDate(2025, 1, 15), Num(25000), "WHOLE FOODS")>>
\* row k of the table is malformed: its date is not the text of a calendar
\* date, or its amount is not a number
IsMalformedRow(k) == ~HoldsDate(RawDate(k)) \/ ~HoldsNumber(RawAmount(k))

\* the table without its malformed rows
WellFormedRows == SelectSeq([k \in 1..Len(file.rows) |-> k], LAMBDA k : ~IsMalformedRow(k))

\* C20: a row whose date or amount does not parse is dropped by the parser:
\* nothing is raised out of parse, and the transactions of a table are those
\* of the table without its malformed rows.
C20_MalformedRowsAreDropped ==
    (pc = "extracted" /\ file.kind = "csv") =>
        /\ outcome.exc = ""
        /\ transactions =
              CsvParseRows(parser, StripColumns(file.columns),
                           [j \in 1..Len(WellFormedRows) |-> file.rows[WellFormedRows[j]]]).txns
\* the statement year import_pdf resolves for the document
StatementYear == _extract_year_from_text(FullText(file.pages))

\* the pages read table-first: a page with a table gives the rows of its
\* tables and no text line, any other page gives its text lines
RECURSIVE TableFirstPages(_, _, _)
TableFirstPages(pages, statement_year, minCells) ==
    IF pages = <<>> THEN <<>>
    ELSE (IF Head(pages).tables # <<>>
          THEN Tables(Head(pages).tables, statement_year, minCells)
          ELSE _parse_text_lines(Head(pages).text, statement_year))
         \o TableFirstPages(Tail(pages), statement_year, minCells)

\* the pages read from their text alone
RECURSIVE TextOnlyPages(_, _)
TextOnlyPages(pages, statement_year) ==
    IF pages = <<>> THEN <<>>
    ELSE _parse_text_lines(Head(pages).text, statement_year)
         \o TextOnlyPages(Tail(pages), statement_year)

PdfExtracted == pc = "extracted" /\ file.kind = "pdf" /\ outcome.exc = ""

Fruitless(bank, page, statement_year) ==
    Tables(page.tables, statement_year, MinCells(bank)) = <<>>

\* the pages read in two stages: the rows of the tables, and the text lines
\* when the tables gave nothing
RECURSIVE TwoStagePages(_, _, _)
TwoStagePages(pages, statement_year, minCells) ==
    IF pages = <<>> THEN <<>>
    ELSE (IF Tables(Head(pages).tables, statement_year, minCells) # <<>>
          THEN Tables(Head(pages).tables, statement_year, minCells)
          ELSE _parse_text_lines(Head(pages).text, statement_year))
         \o TwoStagePages(Tail(pages), statement_year, minCells)

\* C22 as stated: the Chase and Discover extractors read a page in two stages:
\* the tables first, and the text lines whenever the tables gave no
\* transaction, also when the page has tables.
C22_TextWhenTablesGiveNothing ==
    (PdfExtracted /\ parser \in TableParsers) =>
        transactions = TwoStagePages(file.pages, StatementYear, MinCells(parser))

\* C22 amended: the Chase and Discover extractors read the text lines of a
\* page only when the page has no table; a page whose tables give no
\* transaction gives none at all.
C22_TextOnlyWithoutTables ==
    (PdfExtracted /\ parser \in TableParsers) =>
        /\ transactions = TableFirstPages(file.pages, StatementYear, MinCells(parser))
        /\ (\A p \in 1..Len(file.pages) :
               file.pages[p].tables # <<>> /\ Fruitless(parser, file.pages[p], StatementYear))
              => transactions = <<>>

\* a page with a table of no purchase and text lines with one gave nothing
C22_Witness ==
    /\ PdfExtracted /\ parser \in TableParsers /\ Len(file.pages) = 1
    /\ file.pages[1].tables # <<>>
    /\ Fruitless(parser, file.pages[1], StatementYear)
    /\ _parse_text_lines(file.pages[1].text, StatementYear) # <<>>
    /\ transactions = <<>>
\* the cells of a row in their order that are in the set keep of positions
RECURSIVE CellsAt(_, _, _)
CellsAt(cells, keep, k) ==
    IF k > Len(cells) THEN <<>>
    ELSE (IF k \in keep THEN <<cells[k]>> ELSE <<>>) \o CellsAt(cells, keep, k + 1)

\* the positions of the non-empty cells of a row that parse as a date, and of
\* those that parse as a number
DateCells(cells, statement_year) ==
    {k \in DOMAIN cells : cells[k] # "" /\ _parse_date(cells[k], statement_year).ok}

NumberCells(cells) == {k \in DOMAIN cells : cells[k] # "" /\ _parse_amount(cells[k]).ok}

\* the transaction of a row whose date is the cell at d, whose amount the cell
\* at a, and whose description the cells at words
ClassifiedRow(cells, statement_year, d, a, words) ==
    RowTxn(_parse_date(cells[d], statement_year), _parse_amount(cells[a]),
           Strip(Join(CellsAt(cells, words, 1))))

\* a row as C23 describes it: the first date cell, the last number cell, and
\* for the description the text cells, those that are neither
DescribedRow(cells, statement_year, dates, numbers) ==
    IF dates = {} \/ numbers = {} THEN <<>>
    ELSE ClassifiedRow(cells, statement_year,
                       CHOOSE d \in dates : \A j \in dates : d <= j,
                       CHOOSE a \in numbers : \A j \in numbers : a >= j,
                       {k \in DOMAIN cells : cells[k] # ""} \ (dates \cup numbers))

RECURSIVE DescribedRows(_, _, _)
DescribedRows(table, statement_year, minCells) ==
    IF table = <<>> THEN <<>>
    ELSE (IF Len(Head(table)) < minCells THEN <<>>
          ELSE DescribedRow(RowText(Head(table)), statement_year,
                            DateCells(RowText(Head(table)), statement_year),
                            NumberCells(RowText(Head(table)))))
         \o DescribedRows(Tail(table), statement_year, minCells)

\* a document of one page that holds one table, read by Chase or Discover
OneTable ==
    /\ PdfExtracted /\ parser \in TableParsers
    /\ Len(file.pages) = 1 /\ Len(file.pages[1].tables) = 1

\* C23: a table row gives a transaction whose date is the first non-empty cell
\* that parses as a date, whose amount is the last cell that parses as a
\* number, and whose description holds the remaining text cells and nothing of
\* a date or amount cell; it gives one only with a date, an amount above zero
\* and a non-empty description that is no payment.
C23_RowsClassifiedByTrialParsing ==
    OneTable =>
        transactions = DescribedRows(file.pages[1].tables[1], StatementYear, MinCells(parser))

\* the rows of the table that hold two cells that parse as dates
TwoDateRows ==
    {r \in DOMAIN file.pages[1].tables[1] :
        Cardinality(DateCells(RowText(file.pages[1].tables[1][r]), StatementYear)) > 1}

\* C23 for the tables whose rows have one date cell at most
C23_SingleDateRowsClassified ==
    (OneTable /\ TwoDateRows = {}) =>
        transactions = DescribedRows(file.pages[1].tables[1], StatementYear, MinCells(parser))

\* a Discover row with its Post Date gave a description that begins with it
C23_PostDateInDescription ==
    /\ OneTable /\ TwoDateRows # {}
    /\ \E k \in DOMAIN transactions : transactions[k].description = "01/16 AMAZON"
\* where the text holds a MM/DD/YYYY date, and where a month name and a year
SlashDatesIn(text) == {i \in 1..Len(text) : SlashYearAt(text, i) # <<>>}

MonthYearsIn(text) == {i \in 1..Len(text) : MonthYearAt(text, i) # <<>>}

\* the year of the first year-bearing pattern of the text, of either kind
FirstPatternYear(text, slash, month) ==
    IF slash \cup month = {} THEN NoYear
    ELSE IF \E i \in slash : \A j \in month : i < j
    THEN SlashYearAt(text, CHOOSE i \in slash : \A j \in slash : i <= j)[1]
    ELSE MonthYearAt(text, CHOOSE i \in month : \A j \in month : i <= j)[1]

\* the year of the first MM/DD/YYYY date when the text holds one, else the
\* year after the first month name
SlashDateFirstYear(text, slash, month) ==
    IF slash # {} THEN SlashYearAt(text, CHOOSE i \in slash : \A j \in slash : i <= j)[1]
    ELSE IF month # {}
    THEN MonthYearAt(text, CHOOSE i \in month : \A j \in month : i <= j)[1]
    ELSE NoYear

\* C24 as stated: the statement year is the year of the first year-bearing
\* pattern in the text of all pages, a MM/DD/YYYY date or a month name and a
\* year, none when there is neither; the extractor reads the document with it.
C24_YearOfFirstPattern ==
    PdfExtracted =>
        /\ StatementYear = FirstPatternYear(FullText(file.pages),
                                            SlashDatesIn(FullText(file.pages)),
                                            MonthYearsIn(FullText(file.pages)))
        /\ transactions = parse_transactions(parser, file.pages,
                              FirstPatternYear(FullText(file.pages),
                                               SlashDatesIn(FullText(file.pages)),
                                               MonthYearsIn(FullText(file.pages))))

\* C24 amended: the statement year is the year of the first MM/DD/YYYY date
\* anywhere in the text of all pages, and only when there is none the year of
\* the first month name and year; the extractor reads the document with it.
C24_SlashDateYearFirst ==
    PdfExtracted =>
        /\ StatementYear = SlashDateFirstYear(FullText(file.pages),
                                              SlashDatesIn(FullText(file.pages)),
                                              MonthYearsIn(FullText(file.pages)))
        /\ transactions = parse_transactions(parser, file.pages,
                              SlashDateFirstYear(FullText(file.pages),
                                                 SlashDatesIn(FullText(file.pages)),
                                                 MonthYearsIn(FullText(file.pages))))

\* "May 2025" on the first page, "01/31/2024" on the second: the bare date
\* 01/15 of the first page was read in 2024
C24_Witness ==
    /\ PdfExtracted /\ Len(file.pages) = 2
    /\ MonthYearsIn(file.pages[1].text) # {} /\ SlashDatesIn(file.pages[1].text) = {}
    /\ SlashDatesIn(file.pages[2].text) # {}
    /\ StatementYear = 2024
    /\ \E k \in DOMAIN transactions :
          /\ transactions[k].description = "WHOLE FOODS"
          /\ transactions[k].date = MkDate(2024, 1, 15)
\* the column names as detection compares them: trimmed and lower-cased
DetectionColumns(columns) == [k \in 1..Len(columns) |-> Lower(Strip(columns[k]))]

\* the cell of row k in the column detection matched under the name
DetectedCell(k, name) == Cell(DetectionColumns(file.columns), file.rows[k], Lower(name))

\* row k is a purchase by the cells of the columns detection relied on
IsDetectedPurchase(k) ==
    /\ HoldsDate(DetectedCell(k, DateColumn(parser)))
    /\ HoldsNumber(DetectedCell(k, AmountColumn(parser)))
    /\ IF parser = "Chase" THEN PyFloat(DetectedCell(k, AmountColumn(parser))).val.v < 0
       ELSE PyFloat(DetectedCell(k, AmountColumn(parser))).val.v > 0

\* row k is a payment or credit row by the same cells
IsDetectedPayment(k) ==
    /\ HoldsDate(DetectedCell(k, DateColumn(parser)))
    /\ \/ HoldsNumber(DetectedCell(k, AmountColumn(parser))) /\ ~IsDetectedPurchase(k)
       \/ parser = "Capital One" /\ IsNa(DetectedCell(k, AmountColumn(parser)))

\* the table has the columns of one of the four exports, in whatever letter
\* case and with whatever blanks around the names
ExportColumnsInAnyCase ==
    DetectionColumns(file.columns) \in
        {DetectionColumns(h) : h \in {ChaseHeader, AmexHeader, DiscoverHeader,
                                      CapitalOneHeader}}

\* C27: whenever detect_bank matches a table, the matched parser reads the
\* columns detection relied on: for the columns of an export written in any
\* letter case it gives one transaction for each purchase row.
C27_DetectedColumnsAreRead ==
    (/\ pc = "extracted" /\ file.kind = "csv" /\ parser # NoParser
     /\ ExportColumnsInAnyCase
     /\ \A k \in 1..Len(file.rows) : IsDetectedPurchase(k) \/ IsDetectedPayment(k))
        => /\ outcome.exc = ""
           /\ Len(transactions) = Cardinality({k \in 1..Len(file.rows) : IsDetectedPurchase(k)})

\* C27 for the columns written as the export writes them
C27_ExportColumnsAreRead ==
    (/\ pc = "extracted" /\ file.kind = "csv" /\ parser # NoParser
     /\ file.columns \in {ChaseHeader, AmexHeader, DiscoverHeader, CapitalOneHeader}
     /\ \A k \in 1..Len(file.rows) : IsDetectedPurchase(k) \/ IsDetectedPayment(k))
        => /\ outcome.exc = ""
           /\ Len(transactions) = Cardinality({k \in 1..Len(file.rows) : IsDetectedPurchase(k)})

\* a table matched as Chase through "transaction date" and "AMOUNT" with two
\* purchase rows gave no transaction and no exception
C27_EveryRowDropped ==
    /\ pc = "extracted" /\ file.kind = "csv" /\ parser = "Chase"
    /\ file.columns # ChaseHeader
    /\ Len(file.rows) = 2 /\ \A k \in 1..2 : IsDetectedPurchase(k)
    /\ transactions = <<>> /\ outcome.exc = ""
\* ---- end of the properties of extraction ----

(***************************************************************************)
(* The record store on its own: one add_transaction call on a Transactions *)
(* sheet that already has records                                          *)
(***************************************************************************)
MaxRecords == 2

StoreDates == {MkDate(2025, 1, 15), MkDate(2025, 1, 16)}

\* amounts of a call: negative, zero, and three positive ones of which the
\* first two are half a cent apart
StoreAmounts == {Num(-5000), Num(0), Num(10000), Num(10005), Num(10020)}

StoreDescriptions == {"Whole Foods", "WHOLE FOODS", "Target"}

\* the records a sheet starts with
StoreRows ==
    {SheetRow(a, "Other", d, "user1", IsoFormat(dt), "manual", "") :
        a \in {Num(10000), Num(10020)}, d \in {"Whole Foods", "Target"}, dt \in StoreDates}

StoreInit ==
    /\ sheet \in SeqsUpTo(StoreRows, MaxRecords)
    /\ before = sheet
    /\ file = Statement("none", FALSE, <<>>, <<>>, <<>>, 0)
    /\ caller = [user |-> "user1", card |-> ""]
    /\ pc = "start"
    /\ parser = NoParser
    /\ transactions = <<>>
    /\ idx = 1
    /\ imported = 0 /\ skipped = 0 /\ errors = 0
    /\ outcome = NoOutcome
    /\ calls = <<>>
    /\ closes = 0
    /\ run = 1
    /\ pending = <<>>

\* sheets.add_transaction(amount, "Other", description, user, transaction_date):
\* a manual entry; apiUp is whether the Sheets API answers
StoreAdd ==
    /\ pc = "start"
    /\ \E amount \in StoreAmounts, dt \in StoreDates, description \in StoreDescriptions,
          apiUp \in BOOLEAN :
          \E r \in {add_transaction(sheet, apiUp, amount, "Other", description, caller.user,
                                    dt, "manual", caller.card)} :
              /\ sheet' = r.sheet
              /\ transactions' = <<Txn(dt, amount, description)>>
              /\ calls' = <<[op |-> "add_transaction", description |-> description,
                             amount |-> amount, user |-> caller.user, source |-> "manual",
                             card |-> caller.card, raised |-> r.raised]>>
              /\ outcome' = [NoOutcome EXCEPT !.kind = IF r.raised = "" THEN "return"
                                                        ELSE "raise",
                                              !.exc = r.raised]
    /\ pc' = "called"
    /\ UNCHANGED <<file, caller, parser, idx, imported, skipped, errors, closes, run, before,
                   pending>>

StoreNext == StoreAdd

SpecStore == StoreInit /\ [][StoreNext]_vars
(***************************************************************************)
(* Properties of the record store                                          *)
(***************************************************************************)
\* C17: add_transaction called with an amount <= 0 raises InvalidDataError and
\* leaves the sheet as it was; called, with a positive amount and the Sheets
\* API answering, with a date, amount and description that a record of the
\* sheet has, it raises DuplicateTransactionError and leaves the sheet as it
\* was.
C17_RejectionsAppendNothing ==
    pc = "called" =>
        /\ (~transactions[1].amount.nan /\ transactions[1].amount.v <= 0) =>
              /\ outcome.exc = "InvalidDataError"
              /\ sheet = before
        /\ (/\ ~transactions[1].amount.nan /\ transactions[1].amount.v > 0
            /\ Held(before, transactions[1])
            /\ outcome.exc # "APIError") =>
              /\ outcome.exc = "DuplicateTransactionError"
              /\ sheet = before

\* a call with the date, amount and description of the second of two records
\* raised DuplicateTransactionError
C17_Witness ==
    /\ pc = "called"
    /\ Len(before) = 2
    /\ ~Held(<<before[1]>>, transactions[1])
    /\ Held(<<before[2]>>, transactions[1])
    /\ outcome.exc = "DuplicateTransactionError"
    /\ sheet = before
\* the new record add_transaction appends for txn
Admitted(records, txn) ==
    Append(records, SheetRow(txn.amount, "Other", txn.description, caller.user,
                             IsoFormat(txn.date), "manual", caller.card))

\* C18 as stated: add_transaction reports a duplicate if and only if a record
\* of the sheet has the date, the amount and the description of the new
\* transaction, all three equal; a transaction that differs from every
\* record in one of the three is admitted.
C18_DuplicateIffTripleEqual ==
    (/\ pc = "called"
     /\ ~transactions[1].amount.nan /\ transactions[1].amount.v > 0
     /\ outcome.exc # "APIError") =>
        IF Held(before, transactions[1])
        THEN outcome.exc = "DuplicateTransactionError" /\ sheet = before
        ELSE outcome.exc = "" /\ sheet = Admitted(before, transactions[1])

\* a record of the same date, of an amount less than 0.01 away, and of the
\* same description up to letter case
LikelyHeld(records, txn) ==
    \E k \in DOMAIN records :
        /\ records[k].date = IsoFormat(txn.date)
        /\ records[k].amount.v - txn.amount.v \in -9..9
        /\ Lower(records[k].description) = Lower(txn.description)

\* C18: add_transaction reports a duplicate if and only if a record of the
\* sheet has the date of the new transaction, an amount less than 0.01 away
\* from its amount, and its description up to letter case; any other
\* transaction of a positive amount is admitted.
C18_DuplicateIffLikelyMatch ==
    (/\ pc = "called"
     /\ ~transactions[1].amount.nan /\ transactions[1].amount.v > 0
     /\ outcome.exc # "APIError") =>
        IF LikelyHeld(before, transactions[1])
        THEN outcome.exc = "DuplicateTransactionError" /\ sheet = before
        ELSE outcome.exc = "" /\ sheet = Admitted(before, transactions[1])

\* "WHOLE FOODS" was rejected as a duplicate of the record "Whole Foods" of
\* the same date and amount
C18_Witness ==
    /\ pc = "called"
    /\ transactions[1].description = "WHOLE FOODS"
    /\ ~Held(before, transactions[1])
    /\ \E k \in DOMAIN before :
          /\ before[k].description = "Whole Foods"
          /\ before[k].amount = transactions[1].amount
          /\ before[k].date = IsoFormat(transactions[1].date)
    /\ outcome.exc = "DuplicateTransactionError"
    /\ sheet = before
\* ---- end of the properties of the record store ----

(***************************************************************************)
(* The record store under concurrent callers: add_transaction reads the    *)
(* sheet (check_duplicate: get_all_records) and later writes it            *)
(* (append_row) in two separate calls of the Sheets API, with no lock      *)
(***************************************************************************)
MaxCallers == 2

\* what the callers add
ConcurrentTxns ==
    {Txn(MkDate(2025, 1, 15), Num(10000), "Whole Foods"),
     Txn(MkDate(2025, 1, 15), Num(10000), "Target"),
     Txn(MkDate(2025, 1, 16), Num(10000), "Whole Foods"),
     Txn(MkDate(2025, 1, 16), Num(10020), "Whole Foods"),
     Txn(MkDate(2025, 1, 16), Num(10020), "WHOLE FOODS")}

\* a caller that has not called add_transaction
Idle == [stage |-> "idle", txn |-> Txn(NaT, NaN, ""), raised |-> ""]

ConcurrentInit ==
    /\ sheet = <<>>
    /\ pending = [p \in 1..MaxCallers |-> Idle]
    /\ before = <<>>
    /\ file = Statement("none", FALSE, <<>>, <<>>, <<>>, 0)
    /\ caller = [user |-> "user1", card |-> ""]
    /\ pc = "start"
    /\ parser = NoParser
    /\ transactions = <<>>
    /\ idx = 1
    /\ imported = 0 /\ skipped = 0 /\ errors = 0
    /\ outcome = NoOutcome
    /\ calls = <<>>
    /\ closes = 0
    /\ run = 1

\* caller p calls add_transaction, which runs up to the end of its duplicate
\* check: it raises DuplicateTransactionError, or goes on to build its row
ConcurrentCheck(p) ==
    /\ pending[p].stage = "idle"
    /\ \E txn \in ConcurrentTxns :
          pending' =
              [pending EXCEPT
                  ![p] = IF FLeZero(txn.amount)
                         THEN [stage |-> "done", txn |-> txn, raised |-> "InvalidDataError"]
                         ELSE IF check_duplicate(sheet, IsoFormat(txn.date), txn.amount,
                                                 txn.description)
                         THEN [stage |-> "done", txn |-> txn,
                               raised |-> "DuplicateTransactionError"]
                         ELSE [stage |-> "checked", txn |-> txn, raised |-> ""]]
    /\ UNCHANGED <<file, caller, pc, parser, transactions, idx, imported, skipped, errors,
                   sheet, outcome, calls, closes, run, before>>

\* the add_transaction call of caller p appends its row and returns
ConcurrentAppend(p) ==
    /\ pending[p].stage = "checked"
    /\ sheet' = Append(sheet, SheetRow(pending[p].txn.amount, "Other",
                                       pending[p].txn.description, caller.user,
                                       IsoFormat(pending[p].txn.date), "csv", caller.card))
    /\ pending' = [pending EXCEPT ![p].stage = "done"]
    /\ UNCHANGED <<file, caller, pc, parser, transactions, idx, imported, skipped, errors,
                   outcome, calls, closes, run, before>>

ConcurrentNext ==
    \/ \E p \in 1..MaxCallers : ConcurrentCheck(p)
    \/ \E p \in 1..MaxCallers : ConcurrentAppend(p)

SpecConcurrent == ConcurrentInit /\ [][ConcurrentNext]_vars
(***************************************************************************)
(* Properties of the record store under concurrent callers                 *)
(***************************************************************************)
\* C19: with several callers of add_transaction at once, under every
\* interleaving of their duplicate checks and their appends, the sheet has
\* at most one record of a date, amount and description, and of the callers
\* that presented the same three at most one was not told it is a duplicate.
C19_OneRecordPerFingerprint ==
    /\ \A i, j \in DOMAIN sheet :
          (/\ sheet[i].date = sheet[j].date
           /\ sheet[i].amount = sheet[j].amount
           /\ sheet[i].description = sheet[j].description) => i = j
    /\ \A p, q \in DOMAIN pending :
          (/\ pending[p].stage = "done" /\ pending[q].stage = "done"
           /\ pending[p].txn = pending[q].txn
           /\ pending[p].raised = "" /\ pending[q].raised = "") => p = q


(***************************************************************************)
(* The helpers of pdf_parser.py on their own: one call of _parse_date or   *)
(* of _is_payment on a text                                                *)
(***************************************************************************)
DateTexts ==
    {"01/15/2025", "1/5/2025", "12/31/2024", "01/15/25", "01/15/69", "02/29/24", "01/15",
     "1/5", " 01/15 ", "02/29", "02/30", "02/30/2025", "13/01/2025", "13/01", "0/5",
     "not-a-date", "", "01/15/2025/", "01/15/123", "01-15-2025", "+1/5", " 1 / 5 ",
     "1_0/5", "-1/5", "01/ 5/2025", "4294967296/1", "1/2147483648", "2147483647/1"}

StatementYears == {NoYear, 2024, 2025}

PaymentTexts ==
    {"PAYMENT THANK YOU", "Online Payment", "thank you", "CREDIT ADJUSTMENT", "creditor",
     "AUTOPAY 01/15", "Refund Amazon", "refunds", "Price Adjustment", "LATE FEE REVERSAL",
     "Late fee reversal", "REVERSAL OF CHARGE", "reversal", "Returned item", "RETURN",
     "WHOLE FOODS", "AMAZON MKTP US", "pay ment", "thankyou", ""}

HelperCall(fn, text, statement_year) ==
    [fn |-> fn, text |-> text, year |-> statement_year, stage |-> "called", ret |-> "none"]

HelperCalls ==
    {HelperCall("_parse_date", t, y) : t \in DateTexts, y \in StatementYears}
        \cup {HelperCall("_is_payment", t, NoYear) : t \in PaymentTexts}

HelperInit ==
    /\ pending \in {<<c>> : c \in HelperCalls}
    /\ file = Statement("none", FALSE, <<>>, <<>>, <<>>, 0)
    /\ caller = NoCaller
    /\ pc = "start"
    /\ parser = NoParser
    /\ transactions = <<>>
    /\ idx = 1
    /\ imported = 0 /\ skipped = 0 /\ errors = 0
    /\ sheet = <<>>
    /\ outcome = NoOutcome
    /\ calls = <<>>
    /\ closes = 0
    /\ run = 1
    /\ before = <<>>

\* _parse_date(date_str, statement_year): ret is the date, NoDate for None, or
\* the exception that left the function
ParseDateCall ==
    /\ pending[1].stage = "called" /\ pending[1].fn = "_parse_date"
    /\ pending' = <<[pending[1] EXCEPT !.stage = "returned",
                                       !.ret = _parse_date(pending[1].text,
                                                           pending[1].year)]>>
    /\ UNCHANGED <<file, caller, pc, parser, transactions, idx, imported, skipped, errors,
                   sheet, outcome, calls, closes, run, before>>

\* _is_payment(description)
IsPaymentCall ==
    /\ pending[1].stage = "called" /\ pending[1].fn = "_is_payment"
    /\ pending' = <<[pending[1] EXCEPT !.stage = "returned",
                                       !.ret = _is_payment(pending[1].text)]>>
    /\ UNCHANGED <<file, caller, pc, parser, transactions, idx, imported, skipped, errors,
                   sheet, outcome, calls, closes, run, before>>

HelperNext == ParseDateCall \/ IsPaymentCall

SpecHelpers == HelperInit /\ [][HelperNext]_vars

(***************************************************************************)
(* Properties of the helpers                                               *)
(***************************************************************************)
Returned(fn) == pending[1].stage = "returned" /\ pending[1].fn = fn

\* the fields of a date text in one of the forms MM/DD/YYYY, MM/DD/YY, MM/DD:
\* month and day of one or two digits, a year of four or of two digits
InDateForm(parts) ==
    /\ Len(parts) \in {2, 3}
    /\ IsNumField(parts[1], 1, 2) /\ IsNumField(parts[2], 1, 2)
    /\ Len(parts) = 3 => (IsNumField(parts[3], 4, 4) \/ IsNumField(parts[3], 2, 2))

\* the year such a text names: its own, or the fallback year, or the current
FormYear(parts, fallback_year) ==
    IF Len(parts) = 2
    THEN (IF fallback_year # NoYear THEN fallback_year ELSE CurrentYear)
    ELSE IF Len(parts[3]) = 4 THEN DigitsVal(parts[3])
    ELSE IF DigitsVal(parts[3]) < 69 THEN 2000 + DigitsVal(parts[3])
    ELSE 1900 + DigitsVal(parts[3])

\* what C25 says parse_date gives for the fields of a text
DateOfForm(parts, fallback_year) ==
    IF /\ InDateForm(parts)
       /\ ValidDate(FormYear(parts, fallback_year), DigitsVal(parts[1]), DigitsVal(parts[2]))
    THEN Parsed(MkDate(FormYear(parts, fallback_year), DigitsVal(parts[1]),
                       DigitsVal(parts[2])))
    ELSE NoDate

\* C25: parse_date gives the date of a text that is a valid calendar date in
\* one of the forms MM/DD/YYYY, MM/DD/YY and MM/DD, the bare form in the
\* fallback year or else the current year, and gives null, raising nothing,
\* for every other text.
C25_ExactlyThreeFormsElseNull ==
    Returned("_parse_date") =>
        pending[1].ret = DateOfForm(Split(Strip(pending[1].text), "/"), pending[1].year)

\* the texts made of digits and slashes only, no field longer than nine digits
PlainDateText(parts) ==
    \A k \in DOMAIN parts : AllDigits(parts[k]) /\ Len(parts[k]) <= 9

\* C25 for the texts of digits and slashes
C25_PlainTextsThreeFormsElseNull ==
    (Returned("_parse_date") /\ PlainDateText(Split(Strip(pending[1].text), "/"))) =>
        pending[1].ret = DateOfForm(Split(Strip(pending[1].text), "/"), pending[1].year)

\* a month too wide for date() left _parse_date as an OverflowError
C25_OverflowEscapes ==
    /\ Returned("_parse_date") /\ pending[1].text = "4294967296/1"
    /\ pending[1].ret = Overflowed
\* whether the lower-cased description contains one of the keywords
HasKeyword(description, keywords) ==
    \E kw \in keywords : Contains(Lower(description), kw)

\* C26 as stated: looks_like_payment is true exactly of the descriptions that
\* contain, in any letter case and anywhere, one of payment, thank you,
\* credit, autopay, refund, adjustment, reversal, returned.
C26_PaymentIffListedKeyword ==
    Returned("_is_payment") =>
        pending[1].ret = HasKeyword(pending[1].text,
                                    {"payment", "thank you", "credit", "autopay", "refund",
                                     "adjustment", "reversal", "returned"})

\* C26 amended: the keyword for reversals is the phrase "late fee reversal";
\* a description that names another reversal is no payment.
C26_PaymentIffKeywordOfTheList ==
    Returned("_is_payment") =>
        pending[1].ret = HasKeyword(pending[1].text,
                                    {"payment", "thank you", "credit", "autopay", "refund",
                                     "adjustment", "late fee reversal", "returned"})

\* a reversal that is no late fee reversal was classified as a purchase
C26_Witness ==
    /\ Returned("_is_payment") /\ pending[1].text = "REVERSAL OF CHARGE"
    /\ pending[1].ret = FALSE
\* ---- end of the properties of the helpers ----

====
